---- MODULE Spec2Model ----
(***************************************************************************)
(* Model of aiida_fleur.data.fleurinpmodifier.FleurinpModifier: a session  *)
(* records edit tasks against a baseline FleurinpData node, replays them   *)
(* on the parsed inp.xml tree (apply_modifications), previews the result   *)
(* (validate, show) and commits it as a new node (freeze, through the      *)
(* calcfunction modify_fleurinpdata).                                      *)
(*                                                                         *)
(* Python values: None is the empty sequence <<>> and a present optional   *)
(* value v is <<v>> (Some(v)) wherever a parameter or a stored argument    *)
(* may be None; a tuple or list is a sequence; a dict is a function; an    *)
(* XML attribute value is a string.                                        *)
(***************************************************************************)
EXTENDS Integers, Sequences, FiniteSets, TLC

VARIABLES
    nodes,      \* the database: sequence of stored Data nodes, a node's id is its index
    links,      \* provenance: one record per finished modify_fleurinpdata calcfunction
    _original,  \* session -> None or Some(id of the FleurinpData the session is built on)
    _tasks,     \* session -> the session's task list (self._tasks)
    nrec,       \* number of appends made to task lists so far
    frozen,     \* session -> the ids of the nodes its freeze() calls have returned
    last,       \* the last call made on the API and what it returned, raised and printed
    ctx         \* the context of the workchain that runs (self.ctx), None when none does

vars == <<nodes, links, _original, _tasks, nrec, frozen, last, ctx>>

----------------------------------------------------------------------------
(* Bounds of the model *)

\* at most this many calls that grow the state (an append to a task list, a freeze
\* that stores its result, the construction of a second session) are made in one
\* behaviour
MaxCalls == 2

\* the largest total energy a calculation reports
MaxEnergy == 2

\* the largest number of coreholes the input of fleur_corehole_wc asks for
MaxHoles == 2

----------------------------------------------------------------------------
(* Python values *)

None == <<>>
Some(v) == <<v>>
IsNone(o) == Len(o) = 0
Val(o) == o[1]

\* "{}".format(n) and float(s)/int(s) on the numbers the model uses
NumStr == <<"0", "1", "2", "3", "4", "5", "6", "7", "8", "9">>
Format(n) == NumStr[n + 1]
IsNumStr(s) == \E i \in 1..Len(NumStr) : NumStr[i] = s
ToNum(s) == CHOOSE n \in 0..(Len(NumStr) - 1) : NumStr[n + 1] = s

Range(f) == {f[i] : i \in DOMAIN f}

----------------------------------------------------------------------------
(* The inp.xml document: an ordered list of nodes per tag path, each node   *)
(* with string attributes and a text; an XInclude directive that is        *)
(* unresolved on disk; comments.                                           *)

ScfLoopPath == "/fleurInput/calculationSetup/scfLoop"
KPointListPath == "/fleurInput/calculationSetup/bzIntegration/kPointList"
KPointCountPath == "/fleurInput/calculationSetup/bzIntegration/kPointCount"
BzIntegrationPath == "/fleurInput/calculationSetup/bzIntegration"
SpeciesPath == "/fleurInput/atomSpecies/species"
AtomGroupPath == "/fleurInput/atomGroups/atomGroup"
CommentPath == "/fleurInput/comment"
SocPath == "/fleurInput/calculationSetup/soc"

OtherPath == "/fleurInput/other"
NowherePath == "/nowhere"

\* the tag paths a tree stores nodes under; NowherePath matches nothing in any tree
Paths == {ScfLoopPath, KPointListPath, KPointCountPath, SpeciesPath, AtomGroupPath,
          CommentPath, SocPath, OtherPath}

TagOf(xpath) ==
    CASE xpath = ScfLoopPath -> "scfLoop"
      [] xpath = KPointListPath -> "kPointList"
      [] xpath = KPointCountPath -> "kPointCount"
      [] xpath = SpeciesPath -> "species"
      [] xpath = AtomGroupPath -> "atomGroup"
      [] xpath = CommentPath -> "comment"
      [] xpath = SocPath -> "soc"
      [] OTHER -> "other"

\* an element: its tag, its attributes (attribute name -> string) and its text
Element(tag, att, text) == [tag |-> tag, att |-> att, text |-> text]
NoAtt == [a \in {} |-> ""]
NoText == ""

\* the path under which a child element of the node at xpath is found
ChildPath(xpath, tag) ==
    IF xpath = BzIntegrationPath /\ tag = "kPointList" THEN KPointListPath
    ELSE IF xpath = BzIntegrationPath /\ tag = "kPointCount" THEN KPointCountPath
    ELSE IF xpath = "/fleurInput" /\ tag = "comment" THEN CommentPath
    ELSE OtherPath

\* the path of the element that takes the place of the node at xpath
SiblingPath(xpath, tag) ==
    IF xpath \in {KPointListPath, KPointCountPath} THEN ChildPath(BzIntegrationPath, tag)
    ELSE IF tag = TagOf(xpath) THEN xpath
    ELSE OtherPath

\* the nodes an xpath matches, in document order
Match(tree, xpath) == IF xpath \in Paths THEN tree.el[xpath] ELSE <<>>

SetMatch(tree, xpath, ns) == [tree EXCEPT !.el = [@ EXCEPT ![xpath] = ns]]

\* attribute assignment on one element
SetAtt(e, name, value) ==
    [e EXCEPT !.att = [a \in (DOMAIN e.att) \cup {name} |->
                          IF a = name THEN value ELSE e.att[a]]]
DelAtt(e, name) ==
    [e EXCEPT !.att = [a \in (DOMAIN e.att) \ {name} |-> e.att[a]]]

\* the result of one edit: the tree, and the error raised (None, or kind and detail)
Done(tree) == [tree |-> tree, err |-> None]
Raise(tree, kind, detail) == [tree |-> tree, err |-> <<kind, detail>>]
Failed(r) == ~IsNone(r.err)

\* apply F to the elements of ns whose 0-based index is in idx
MapOcc(ns, idx, F(_)) == [i \in 1..Len(ns) |-> IF (i - 1) \in idx THEN F(ns[i]) ELSE ns[i]]
AllOcc(ns) == {i - 1 : i \in 1..Len(ns)}

\* eval_xpath3: the tree in which xpath matches (the node created when create is set
\* and the path can hold one), or None when nothing matches
EvalXpath3(tree, xpath, create) ==
    IF Match(tree, xpath) # <<>> THEN Some(tree)
    ELSE IF create /\ xpath \in Paths
         THEN Some(SetMatch(tree, xpath, <<Element(TagOf(xpath), NoAtt, NoText)>>))
         ELSE None

\* edit the matches of xpath selected by Sel(matches) with F, or fail PathNotFound
EditNodes(tree, xpath, create, Sel(_), F(_)) ==
    LET t == EvalXpath3(tree, xpath, create) IN
    IF IsNone(t) THEN Raise(tree, "PathNotFound", xpath)
    ELSE LET ns == Match(Val(t), xpath) IN
         Done(SetMatch(Val(t), xpath, MapOcc(ns, Sel(ns), F)))

----------------------------------------------------------------------------
(* aiida_fleur.tools.xml_util: the edit operations on a tree.  Each edits   *)
(* the tree it is given in place and fails with PathNotFound when, without *)
(* create, its path matches nothing.                                       *)

xml_set_attribv_occ(tree, xpathn, attributename, attribv, occ, create) ==
    EditNodes(tree, xpathn, create, LAMBDA ns : Range(occ),
              LAMBDA e : SetAtt(e, attributename, attribv))

xml_set_first_attribv(tree, xpathn, attributename, attribv, create) ==
    EditNodes(tree, xpathn, create, LAMBDA ns : {0},
              LAMBDA e : SetAtt(e, attributename, attribv))

xml_set_all_attribv(tree, xpathn, attributename, attribv, create) ==
    EditNodes(tree, xpathn, create, LAMBDA ns : AllOcc(ns),
              LAMBDA e : SetAtt(e, attributename, attribv))

xml_set_text(tree, xpathn, text, create) ==
    EditNodes(tree, xpathn, create, LAMBDA ns : {0}, LAMBDA e : [e EXCEPT !.text = text])

xml_set_text_occ(tree, xpathn, text, create, occ) ==
    EditNodes(tree, xpathn, create, LAMBDA ns : {occ}, LAMBDA e : [e EXCEPT !.text = text])

xml_set_all_text(tree, xpathn, text, create) ==
    EditNodes(tree, xpathn, create, LAMBDA ns : AllOcc(ns),
              LAMBDA e : [e EXCEPT !.text = text])

\* the parents that every tree has
FixedParents == {"/fleurInput", BzIntegrationPath}

\* a new, empty element with the tag newelement is appended under every match of xpath
create_tag(tree, xpath, newelement, create) ==
    LET t == IF xpath \in FixedParents THEN Some(tree) ELSE EvalXpath3(tree, xpath, create)
        child == ChildPath(xpath, newelement)
    IN  IF IsNone(t) THEN Raise(tree, "PathNotFound", xpath)
        ELSE Done(SetMatch(Val(t), child,
                           Append(Match(Val(t), child), Element(newelement, NoAtt, NoText))))

\* every match of xpath is replaced by a copy of the element newelement
replace_tag(tree, xpath, newelement) ==
    LET ns == Match(tree, xpath)
        to == SiblingPath(xpath, newelement.tag)
        removed == SetMatch(tree, xpath, <<>>)
    IN  IF ns = <<>> THEN Raise(tree, "PathNotFound", xpath)
        ELSE Done(SetMatch(removed, to,
                           Match(removed, to) \o [i \in 1..Len(ns) |-> newelement]))

delete_tag(tree, xpath) ==
    IF Match(tree, xpath) = <<>> THEN Raise(tree, "PathNotFound", xpath)
    ELSE Done(SetMatch(tree, xpath, <<>>))

delete_att(tree, xpath, attrib) ==
    EditNodes(tree, xpath, FALSE, LAMBDA ns : AllOcc(ns), LAMBDA e : DelAtt(e, attrib))

\* all the attributes of attributedict set on one element
SetAtts(e, attributedict) ==
    [e EXCEPT !.att = [a \in (DOMAIN e.att) \cup (DOMAIN attributedict) |->
                          IF a \in DOMAIN attributedict THEN attributedict[a] ELSE e.att[a]]]

HasAtt(e, name, value) == name \in DOMAIN e.att /\ e.att[name] = value
Selected(ns, name, value) == {i - 1 : i \in {j \in 1..Len(ns) : HasAtt(ns[j], name, value)}}

\* the attributes of the species named species_name ('all': of every species)
set_species(tree, species_name, attributedict, create) ==
    LET ns == Match(tree, SpeciesPath)
        sel == IF species_name = "all" THEN AllOcc(ns) ELSE Selected(ns, "name", species_name)
    IN  IF sel = {} THEN Raise(tree, "PathNotFound", species_name)
        ELSE Done(SetMatch(tree, SpeciesPath,
                           MapOcc(ns, sel, LAMBDA e : SetAtts(e, attributedict))))

\* the attributes of the species of the atom group that holds the atom labelled at_label
set_species_label(tree, at_label, attributedict, create) ==
    LET gs == Match(tree, AtomGroupPath)
        sel == Selected(gs, "label", at_label)
    IN  IF sel = {} \/ \E i \in sel : "species" \notin DOMAIN gs[i + 1].att
        THEN Raise(tree, "PathNotFound", at_label)
        ELSE set_species(tree, gs[(CHOOSE i \in sel : \A j \in sel : i <= j) + 1].att.species,
                         attributedict, create)

\* the attributes of the atom group at the 1-based position, or of the groups of a species
change_atomgr_att(tree, attributedict, position, species, create) ==
    LET gs == Match(tree, AtomGroupPath)
        sel == IF ~IsNone(position)
               THEN {Val(position) - 1} \cap AllOcc(gs)
               ELSE IF ~IsNone(species)
               THEN IF Val(species) = "all" THEN AllOcc(gs)
                    ELSE Selected(gs, "species", Val(species))
               ELSE {}
    IN  IF IsNone(position) /\ IsNone(species) THEN Done(tree)
        ELSE IF sel = {} THEN Raise(tree, "PathNotFound", AtomGroupPath)
        ELSE Done(SetMatch(tree, AtomGroupPath,
                           MapOcc(gs, sel, LAMBDA e : SetAtts(e, attributedict))))

change_atomgr_att_label(tree, attributedict, at_label, create) ==
    LET gs == Match(tree, AtomGroupPath)
        sel == Selected(gs, "label", at_label)
    IN  IF sel = {} THEN Raise(tree, "PathNotFound", at_label)
        ELSE Done(SetMatch(tree, AtomGroupPath,
                           MapOcc(gs, sel, LAMBDA e : SetAtts(e, attributedict))))

\* the number set_val added to ('abs') or put in place of ('rel') a numeric attribute
add_num_to_att(tree, xpathn, attributename, set_val, mode, occ, create) ==
    LET t == EvalXpath3(tree, xpathn, create)
        ns == Match(Val(t), xpathn)
        hit == {i \in 1..Len(ns) : (i - 1) \in Range(occ)}
        New(e) == SetAtt(e, attributename,
                         Format(IF mode = "abs" THEN ToNum(e.att[attributename]) + set_val
                                ELSE set_val))
    IN  IF IsNone(t) THEN Raise(tree, "PathNotFound", xpathn)
        ELSE IF \E i \in hit : ~(attributename \in DOMAIN ns[i].att
                                  /\ IsNumStr(ns[i].att[attributename]))
        THEN Raise(tree, "ValueError", attributename)
        ELSE Done(SetMatch(Val(t), xpathn, MapOcc(ns, Range(occ), New)))

\* get_inpxml_file_structure: the logical setting names and where each one lives
XmlInpStructure ==
    [itmax |-> <<ScfLoopPath, "itmax">>,
     alpha |-> <<ScfLoopPath, "alpha">>,
     jspins |-> <<ScfLoopPath, "jspins">>,
     theta |-> <<SocPath, "theta">>,
     phi |-> <<SocPath, "phi">>]

\* write_new_fleur_xmlinp_file: every key of change_dict resolved to its path and
\* attribute and set there; an unknown key fails
write_new_fleur_xmlinp_file(tree, change_dict, xmlinpstructure) ==
    LET keys == DOMAIN change_dict
        unknown == keys \ DOMAIN xmlinpstructure
        paths == {xmlinpstructure[k][1] : k \in keys \ unknown}
        Set(e, p) == [e EXCEPT !.att =
                        [a \in (DOMAIN e.att)
                               \cup {xmlinpstructure[k][2] : k \in {q \in keys : xmlinpstructure[q][1] = p}} |->
                            IF \E k \in keys : xmlinpstructure[k] = <<p, a>>
                            THEN Format(change_dict[CHOOSE k \in keys : xmlinpstructure[k] = <<p, a>>])
                            ELSE e.att[a]]]
    IN  IF unknown # {} THEN Raise(tree, "UnknownKey", CHOOSE k \in unknown : TRUE)
        ELSE IF \E p \in paths : Match(tree, p) = <<>>
        THEN Raise(tree, "PathNotFound", CHOOSE p \in paths : Match(tree, p) = <<>>)
        ELSE Done([tree EXCEPT !.el = [p \in Paths |->
                      IF p \in paths THEN MapOcc(tree.el[p], {0}, LAMBDA e : Set(e, p))
                      ELSE tree.el[p]]])

----------------------------------------------------------------------------
(* lxml: parsing, XInclude, schema validation *)

\* a faulty variant: the tree of the call before is kept and handed out again
Parse_Cached(file, remove_comments) ==
    IF ~IsNone(last.tree) THEN Val(last.tree)
    ELSE [file EXCEPT !.comments = IF remove_comments THEN FALSE ELSE @]

\* etree.parse of a stored inp.xml; a parser with remove_comments drops the comments
Parse(file, remove_comments) ==
    [file EXCEPT !.comments = IF remove_comments THEN FALSE ELSE @]

\* tree.xinclude(): the include directive is replaced by what it includes
XInclude(tree) == [tree EXCEPT !.inc = IF @ = "unresolved" THEN "resolved" ELSE @]

\* copy.deepcopy of a tree
DeepCopy(tree) == tree

\* a faulty variant: tree_x is the tree itself, and the includes are resolved in it
ResolvedCopy_Alias(tree) == [tree |-> XInclude(tree), tree_x |-> XInclude(tree)]

\* tree_x = copy.deepcopy(tree); tree_x.xinclude(): the tree as it is after the two
\* statements, and the copy with the includes resolved
ResolvedCopy(tree) == [tree |-> tree, tree_x |-> XInclude(DeepCopy(tree))]

NumAtt(e, name) == name \in DOMAIN e.att /\ IsNumStr(e.att[name])

\* xmlschema.validate: structure, attribute types and cardinality of FleurInputSchema
SchemaValidate(tree) ==
    /\ tree.inc # "unresolved"
    /\ Len(tree.el[ScfLoopPath]) = 1
    /\ NumAtt(tree.el[ScfLoopPath][1], "itmax")
    /\ \A a \in DOMAIN tree.el[ScfLoopPath][1].att : a \in {"itmax", "alpha", "jspins"}
    /\ Len(tree.el[KPointListPath]) + Len(tree.el[KPointCountPath]) = 1
    /\ \A i \in 1..Len(tree.el[KPointCountPath]) :
          /\ NumAtt(tree.el[KPointCountPath][i], "count")
          /\ "gamma" \in DOMAIN tree.el[KPointCountPath][i].att
          /\ tree.el[KPointCountPath][i].att.gamma \in {"T", "F"}
    /\ Len(tree.el[SpeciesPath]) >= 1
    /\ \A i \in 1..Len(tree.el[SpeciesPath]) : "name" \in DOMAIN tree.el[SpeciesPath][i].att
    /\ Len(tree.el[AtomGroupPath]) >= 1
    /\ \A i \in 1..Len(tree.el[AtomGroupPath]) :
          "species" \in DOMAIN tree.el[AtomGroupPath][i].att
    /\ Len(tree.el[CommentPath]) <= 1
    /\ tree.el[OtherPath] = <<>>

----------------------------------------------------------------------------
(* FleurinpModifier.apply_modifications *)

\* action(workingtree, *task[1:]): the i-th positional argument, or the parameter's
\* default when the task holds fewer arguments
Arg(args, i, default) == IF i <= Len(args) THEN args[i] ELSE default

\* Python's check of a call: required <= number of positional arguments <= parameters
Arity(args, required, parameters) == required <= Len(args) /\ Len(args) <= parameters
TypeError(tree, name) == Raise(tree, "TypeError", name)

\* a faulty variant: attributename and attribv are taken in the other order
xml_set_attribv_occ1_Swapped(fleurinp_tree_copy, args) ==
    LET occ == Arg(args, 4, None)
        create == Arg(args, 5, FALSE)
    IN  IF ~Arity(args, 3, 5) THEN TypeError(fleurinp_tree_copy, "xml_set_attribv_occ1")
        ELSE xml_set_attribv_occ(fleurinp_tree_copy, args[1], args[3], args[2],
                                 IF IsNone(occ) THEN <<0>> ELSE Val(occ), create)

xml_set_attribv_occ1(fleurinp_tree_copy, args) ==
    LET occ == Arg(args, 4, None)
        create == Arg(args, 5, FALSE)
    IN  IF ~Arity(args, 3, 5) THEN TypeError(fleurinp_tree_copy, "xml_set_attribv_occ1")
        ELSE xml_set_attribv_occ(fleurinp_tree_copy, args[1], args[2], args[3],
                                 IF IsNone(occ) THEN <<0>> ELSE Val(occ), create)

xml_set_first_attribv1(fleurinp_tree_copy, args) ==
    IF ~Arity(args, 3, 4) THEN TypeError(fleurinp_tree_copy, "xml_set_first_attribv1")
    ELSE xml_set_first_attribv(fleurinp_tree_copy, args[1], args[2], args[3],
                               Arg(args, 4, FALSE))

xml_set_all_attribv1(fleurinp_tree_copy, args) ==
    IF ~Arity(args, 3, 4) THEN TypeError(fleurinp_tree_copy, "xml_set_all_attribv1")
    ELSE xml_set_all_attribv(fleurinp_tree_copy, args[1], args[2], args[3],
                             Arg(args, 4, FALSE))

xml_set_text1(fleurinp_tree_copy, args) ==
    IF ~Arity(args, 2, 3) THEN TypeError(fleurinp_tree_copy, "xml_set_text1")
    ELSE xml_set_text(fleurinp_tree_copy, args[1], args[2], Arg(args, 3, FALSE))

\* parameters (xpathn, text, create=False, occ=0)
xml_set_text_occ1(fleurinp_tree_copy, args) ==
    IF ~Arity(args, 2, 4) THEN TypeError(fleurinp_tree_copy, "xml_set_text_occ1")
    ELSE xml_set_text_occ(fleurinp_tree_copy, args[1], args[2], Arg(args, 3, FALSE),
                          Arg(args, 4, 0))

xml_set_all_text1(fleurinp_tree_copy, args) ==
    IF ~Arity(args, 2, 3) THEN TypeError(fleurinp_tree_copy, "xml_set_all_text1")
    ELSE xml_set_all_text(fleurinp_tree_copy, args[1], args[2], Arg(args, 3, FALSE))

create_tag1(fleurinp_tree_copy, args) ==
    IF ~Arity(args, 2, 3) THEN TypeError(fleurinp_tree_copy, "create_tag1")
    ELSE create_tag(fleurinp_tree_copy, args[1], args[2], Arg(args, 3, FALSE))

delete_att1(fleurinp_tree_copy, args) ==
    IF ~Arity(args, 2, 2) THEN TypeError(fleurinp_tree_copy, "delete_att1")
    ELSE delete_att(fleurinp_tree_copy, args[1], args[2])

delete_tag1(fleurinp_tree_copy, args) ==
    IF ~Arity(args, 1, 1) THEN TypeError(fleurinp_tree_copy, "delete_tag1")
    ELSE delete_tag(fleurinp_tree_copy, args[1])

replace_tag1(fleurinp_tree_copy, args) ==
    IF ~Arity(args, 2, 2) THEN TypeError(fleurinp_tree_copy, "replace_tag1")
    ELSE replace_tag(fleurinp_tree_copy, args[1], args[2])

set_species1(fleurinp_tree_copy, args) ==
    IF ~Arity(args, 2, 3) THEN TypeError(fleurinp_tree_copy, "set_species1")
    ELSE set_species(fleurinp_tree_copy, args[1], args[2], Arg(args, 3, FALSE))

set_species2(fleurinp_tree_copy, args) ==
    IF ~Arity(args, 2, 3) THEN TypeError(fleurinp_tree_copy, "set_species2")
    ELSE set_species_label(fleurinp_tree_copy, args[1], args[2], Arg(args, 3, FALSE))

\* parameters (attributedict, position=None, species=None, create=False)
change_atomgr_att1(fleurinp_tree_copy, args) ==
    IF ~Arity(args, 1, 4) THEN TypeError(fleurinp_tree_copy, "change_atomgr_att1")
    ELSE change_atomgr_att(fleurinp_tree_copy, args[1], Arg(args, 2, None),
                           Arg(args, 3, None), Arg(args, 4, FALSE))

\* parameters (attributedict, atom_label, create=False)
change_atomgr_att2(fleurinp_tree_copy, args) ==
    IF ~Arity(args, 2, 3) THEN TypeError(fleurinp_tree_copy, "change_atomgr_att2")
    ELSE change_atomgr_att_label(fleurinp_tree_copy, args[1], args[2], Arg(args, 3, FALSE))

\* parameters (xpathn, attributename, set_val, mode='abs', occ=None, create=False)
add_num_to_att1(fleurinp_tree_copy, args) ==
    LET occ == Arg(args, 5, None)
    IN  IF ~Arity(args, 3, 6) THEN TypeError(fleurinp_tree_copy, "add_num_to_att1")
        ELSE add_num_to_att(fleurinp_tree_copy, args[1], args[2], args[3],
                            Arg(args, 4, "abs"), IF IsNone(occ) THEN <<0>> ELSE Val(occ),
                            Arg(args, 6, FALSE))

set_inpchanges1(fleurinp_tree_copy, args) ==
    IF ~Arity(args, 1, 1) THEN TypeError(fleurinp_tree_copy, "set_inpchanges1")
    ELSE write_new_fleur_xmlinp_file(fleurinp_tree_copy, args[1], XmlInpStructure)

\* a faulty variant: count and gamma are written into each other's attribute
set_nkpts1_Swapped(fleurinp_tree_copy, args) ==
    IF ~Arity(args, 2, 2) THEN TypeError(fleurinp_tree_copy, "set_nkpts1")
    ELSE LET new_kpo == Element("kPointCount",
                                [count |-> args[2], gamma |-> Format(args[1])], NoText)
         IN  replace_tag(fleurinp_tree_copy, KPointListPath, new_kpo)

\* parameters (count, gamma): a kPointCount element with the formatted values replaces
\* the kPointList
set_nkpts1(fleurinp_tree_copy, args) ==
    IF ~Arity(args, 2, 2) THEN TypeError(fleurinp_tree_copy, "set_nkpts1")
    ELSE LET new_kpo == Element("kPointCount",
                                [count |-> Format(args[1]), gamma |-> args[2]], NoText)
         IN  replace_tag(fleurinp_tree_copy, KPointListPath, new_kpo)

\* a faulty variant: the table has no entry for set_nkpts
actions_Without_set_nkpts ==
    {"xml_set_attribv_occ", "xml_set_first_attribv", "xml_set_all_attribv", "xml_set_text",
     "xml_set_text_occ", "xml_set_all_text", "create_tag", "replace_tag", "delete_tag",
     "delete_att", "set_species", "set_species_label", "set_atomgr_att",
     "set_atomgr_att_label", "set_inpchanges", "add_num_to_att"}

\* the keys of the dispatch table
actions ==
    {"xml_set_attribv_occ", "xml_set_first_attribv", "xml_set_all_attribv", "xml_set_text",
     "xml_set_text_occ", "xml_set_all_text", "create_tag", "replace_tag", "delete_tag",
     "delete_att", "set_species", "set_species_label", "set_atomgr_att",
     "set_atomgr_att_label", "set_inpchanges", "set_nkpts", "add_num_to_att"}

\* actions[name](workingtree, *args)
action(name, workingtree, args) ==
    CASE name = "xml_set_attribv_occ" -> xml_set_attribv_occ1(workingtree, args)
      [] name = "xml_set_first_attribv" -> xml_set_first_attribv1(workingtree, args)
      [] name = "xml_set_all_attribv" -> xml_set_all_attribv1(workingtree, args)
      [] name = "xml_set_text" -> xml_set_text1(workingtree, args)
      [] name = "xml_set_text_occ" -> xml_set_text_occ1(workingtree, args)
      [] name = "xml_set_all_text" -> xml_set_all_text1(workingtree, args)
      [] name = "create_tag" -> create_tag1(workingtree, args)
      [] name = "replace_tag" -> replace_tag1(workingtree, args)
      [] name = "delete_tag" -> delete_tag1(workingtree, args)
      [] name = "delete_att" -> delete_att1(workingtree, args)
      [] name = "set_species" -> set_species1(workingtree, args)
      [] name = "set_species_label" -> set_species2(workingtree, args)
      [] name = "set_atomgr_att" -> change_atomgr_att1(workingtree, args)
      [] name = "set_atomgr_att_label" -> change_atomgr_att2(workingtree, args)
      [] name = "set_inpchanges" -> set_inpchanges1(workingtree, args)
      [] name = "set_nkpts" -> set_nkpts1(workingtree, args)
      [] name = "add_num_to_att" -> add_num_to_att1(workingtree, args)

\* a faulty variant: the tasks taken last to first
TaskOrder_Reversed(modification_tasks) ==
    [i \in 1..Len(modification_tasks) |-> modification_tasks[Len(modification_tasks) + 1 - i]]

\* the order in which the loop takes the tasks: for task in modification_tasks
TaskOrder(modification_tasks) == modification_tasks

\* one pass of the loop body on task: the lookup, then the call.  run holds the working
\* tree, the tasks whose action has returned (applied) and the error raised
\* workingtree = action(workingtree, *task[1:]), r being what the call did
Assign(run, task, r) ==
    IF Failed(r) THEN [run EXCEPT !.workingtree = r.tree, !.err = r.err]
    ELSE [run EXCEPT !.workingtree = r.tree, !.applied = Append(@, task)]

\* a faulty variant: a task with an unknown name is passed over
LoopBody_SkipUnknown(run, task) ==
    IF task[1] \notin actions THEN run
    ELSE Assign(run, task, action(task[1], run.workingtree, Tail(task)))

LoopBody(run, task) ==
    IF task[1] \notin actions
    THEN [run EXCEPT !.err = <<"ValueError", "Unknown task " \o task[1]>>]
    ELSE Assign(run, task, action(task[1], run.workingtree, Tail(task)))

\* a faulty variant: a task equal to the one before it is not applied again
RECURSIVE Loop_Dedup(_, _, _)
Loop_Dedup(run, todo, i) ==
    IF i > Len(todo) \/ ~IsNone(run.err) THEN run
    ELSE IF i > 1 /\ todo[i] = todo[i - 1] THEN Loop_Dedup(run, todo, i + 1)
    ELSE Loop_Dedup(LoopBody(run, todo[i]), todo, i + 1)

\* the loop: the tasks from the i-th on, until one raises
RECURSIVE Loop(_, _, _)
Loop(run, todo, i) ==
    IF i > Len(todo) \/ ~IsNone(run.err) THEN run
    ELSE Loop(LoopBody(run, todo[i]), todo, i + 1)

\* the validation after the loop, on a deep copy with the includes resolved: a tree
\* that does not validate is printed about and returned all the same
\* if schema_tree: if not xmlschema.validate(workingtree_x): print(...)
Validated(run, schema_tree, copied) ==
    IF ~IsNone(schema_tree) /\ ~SchemaValidate(copied.tree_x)
    THEN [run EXCEPT !.workingtree = copied.tree,
                     !.printed = Append(@, "changes were not valid: {}")]
    ELSE [run EXCEPT !.workingtree = copied.tree]

\* a faulty variant: a tree that does not validate raises
PostValidate_Raising(run, schema_tree) ==
    IF ~IsNone(run.err) THEN run
    ELSE IF ~IsNone(schema_tree) /\ ~SchemaValidate(ResolvedCopy(run.workingtree).tree_x)
    THEN [run EXCEPT !.err = <<"ValueError", "change not valid: {}">>]
    ELSE run

PostValidate(run, schema_tree) ==
    IF ~IsNone(run.err) THEN run
    ELSE Validated(run, schema_tree, ResolvedCopy(run.workingtree))

\* return workingtree
Return(run) ==
    [workingtree |-> run.workingtree,
     fleurinp_tree_copy |-> run.workingtree,
     applied |-> run.applied,
     err |-> run.err,
     printed |-> run.printed]

\* apply_modifications(fleurinp_tree_copy, modification_tasks, schema_tree=None).
\* workingtree is the tree returned when err is None; fleurinp_tree_copy is the tree
\* the caller passed, as it is after the call: workingtree is bound to that object and
\* the edits are made in place.
apply_modifications(fleurinp_tree_copy, modification_tasks, schema_tree) ==
    Return(PostValidate(Loop([workingtree |-> fleurinp_tree_copy, applied |-> <<>>,
                              err |-> None, printed |-> <<>>],
                             TaskOrder(modification_tasks), 1),
                        schema_tree))

----------------------------------------------------------------------------
(* FleurinpData nodes and the baselines a session can be built on *)

FleurinpData(file, schema) ==
    [type |-> "fleur.fleurinp", file |-> file, schema |-> schema, label |-> ""]

\* an inp.xml as inpgen writes it: one scfLoop, a kPointList, one species and its atom
\* group, an XInclude directive and comments
InpXml ==
    [el |-> [p \in Paths |->
                CASE p = ScfLoopPath -> <<Element("scfLoop", [itmax |-> "5"], NoText)>>
                  [] p = KPointListPath -> <<Element("kPointList", NoAtt, NoText)>>
                  [] p = SpeciesPath -> <<Element("species", [name |-> "Fe"], NoText)>>
                  [] p = AtomGroupPath ->
                        <<Element("atomGroup", [species |-> "Fe", label |-> "1"], NoText)>>
                  [] p = SocPath -> <<Element("soc", [theta |-> "0.1", phi |-> "0.1"], NoText)>>
                  [] OTHER -> <<>>],
     inc |-> "unresolved",
     comments |-> TRUE]

\* an inp.xml whose scfLoop lacks the required attribute itmax
InpXmlInvalid ==
    [InpXml EXCEPT !.el = [@ EXCEPT ![ScfLoopPath] = <<Element("scfLoop", NoAtt, NoText)>>]]

\* the baselines: a valid one, one that does not validate, and a valid one whose schema
\* file cannot be loaded
Baselines ==
    {FleurinpData(InpXml, TRUE), FleurinpData(InpXmlInvalid, TRUE), FleurinpData(InpXml, FALSE)}

Sessions == {"s1", "s2"}

\* the sessions that have been constructed
Live == {s \in Sessions : ~IsNone(_original[s])}
Original(s) == nodes[Val(_original[s])]

\* the calls that grew the state so far: the appends, the stored results and the
\* sessions constructed after the first
Used == nrec + Cardinality(links) + Cardinality(Live) - 1

\* what a call leaves in last: its name, the session, whether it was asked to display,
\* the tree or node id returned, the error raised, the tasks replayed and what was printed
Call(name, s) ==
    [call |-> name, session |-> s, display |-> FALSE, tree |-> None, out |-> None,
     err |-> None, applied |-> <<>>, printed |-> <<>>]

Init ==
    /\ \E b \in Baselines : nodes = <<b>>
    /\ links = {}
    /\ _original = [s \in Sessions |-> IF s = "s1" THEN Some(1) ELSE None]
    /\ _tasks = [s \in Sessions |-> <<>>]
    /\ nrec = 0
    /\ frozen = [s \in Sessions |-> <<>>]
    /\ last = Call("__init__", "s1")
    /\ ctx = None

----------------------------------------------------------------------------
(* The recording methods.  A parameter with a default is None when the      *)
(* caller omits it.                                                        *)

Default(arg, default) == IF IsNone(arg) THEN default ELSE Val(arg)

\* a faulty variant: the task is put at the head of the list
Record_Prepend(s, task) ==
    /\ Used < MaxCalls
    /\ _tasks' = [_tasks EXCEPT ![s] = <<task>> \o @]
    /\ nrec' = nrec + 1
    /\ last' = Call(task[1], s)
    /\ UNCHANGED <<nodes, links, _original, frozen, ctx>>

\* a faulty variant: one list is shared by all sessions
Record_Shared(s, task) ==
    /\ Used < MaxCalls
    /\ _tasks' = [t \in Sessions |-> IF t \in Live THEN Append(_tasks[t], task) ELSE _tasks[t]]
    /\ nrec' = nrec + 1
    /\ last' = Call(task[1], s)
    /\ UNCHANGED <<nodes, links, _original, frozen, ctx>>

\* self._tasks.append(task)
Record(s, task) ==
    /\ Used < MaxCalls
    /\ _tasks' = [_tasks EXCEPT ![s] = Append(@, task)]
    /\ nrec' = nrec + 1
    /\ last' = Call(task[1], s)
    /\ UNCHANGED <<nodes, links, _original, frozen, ctx>>

\* the task tuples the recording methods build
\* a faulty variant: occ is stored as it was passed
Task_xml_set_attribv_occ_Raw(xpathn, attributename, attribv, occ, create) ==
    <<"xml_set_attribv_occ", xpathn, attributename, attribv, occ, Default(create, FALSE)>>

Task_xml_set_attribv_occ(xpathn, attributename, attribv, occ, create) ==
    <<"xml_set_attribv_occ", xpathn, attributename, attribv,
      Some(IF IsNone(occ) THEN <<0>> ELSE Val(occ)), Default(create, FALSE)>>
Task_xml_set_first_attribv(xpathn, attributename, attribv, create) ==
    <<"xml_set_first_attribv", xpathn, attributename, attribv, Default(create, FALSE)>>
Task_xml_set_all_attribv(xpathn, attributename, attribv, create) ==
    <<"xml_set_all_attribv", xpathn, attributename, attribv, Default(create, FALSE)>>
Task_xml_set_text(xpathn, text, create) ==
    <<"xml_set_text", xpathn, text, Default(create, FALSE)>>
Task_xml_set_text_occ(xpathn, text, create, occ) ==
    <<"xml_set_text_occ", xpathn, text, Default(create, FALSE), Default(occ, 0)>>
Task_xml_set_all_text(xpathn, text, create) ==
    <<"xml_set_all_text", xpathn, text, Default(create, FALSE)>>
Task_create_tag(xpath, newelement, create) ==
    <<"create_tag", xpath, newelement, Default(create, FALSE)>>
Task_delete_att(xpath, attrib) == <<"delete_att", xpath, attrib>>
Task_delete_tag(xpath) == <<"delete_tag", xpath>>
Task_replace_tag(xpath, newelement) == <<"replace_tag", xpath, newelement>>
Task_set_species(species_name, attributedict, create) ==
    <<"set_species", species_name, attributedict, Default(create, FALSE)>>
Task_set_species_label(at_label, attributedict, create) ==
    <<"set_species_label", at_label, attributedict, Default(create, FALSE)>>
Task_set_atomgr_att(attributedict, position, species, create) ==
    <<"set_atomgr_att", attributedict, position, species, Default(create, FALSE)>>
Task_set_atomgr_att_label(attributedict, atom_label, create) ==
    <<"set_atomgr_att_label", attributedict, atom_label, Default(create, FALSE)>>
Task_set_inpchanges(change_dict) == <<"set_inpchanges", change_dict>>
Task_set_nkpts(count, gamma) == <<"set_nkpts", count, Default(gamma, "F")>>
Task_add_num_to_att(xpathn, attributename, set_val, mode, occ, create) ==
    <<"add_num_to_att", xpathn, attributename, set_val, Default(mode, "abs"),
      Some(IF IsNone(occ) THEN <<0>> ELSE Val(occ)), Default(create, FALSE)>>

Omitted == {None}

Rec_xml_set_attribv_occ(s) ==
    /\ s \in Live
    /\ \E occ \in {None, Some(<<0>>)}, create \in Omitted :
           Record(s, Task_xml_set_attribv_occ(ScfLoopPath, "itmax", "2", occ, create))
Rec_xml_set_first_attribv(s) ==
    /\ s \in Live
    /\ \E create \in Omitted :
           Record(s, Task_xml_set_first_attribv(ScfLoopPath, "itmax", "3", create))
Rec_xml_set_all_attribv(s) ==
    /\ s \in Live
    /\ \E create \in Omitted :
           Record(s, Task_xml_set_all_attribv(SpeciesPath, "element", "Fe", create))
Rec_xml_set_text(s) ==
    /\ s \in Live
    /\ \E create \in Omitted : Record(s, Task_xml_set_text(CommentPath, "A", create))
Rec_xml_set_text_occ(s) ==
    /\ s \in Live
    /\ \E create \in Omitted, occ \in Omitted :
           Record(s, Task_xml_set_text_occ(CommentPath, "B", create, occ))
Rec_xml_set_all_text(s) ==
    /\ s \in Live
    /\ \E create \in {Some(TRUE)} : Record(s, Task_xml_set_all_text(OtherPath, "C", create))
Rec_create_tag(s) ==
    /\ s \in Live
    /\ \E create \in Omitted : Record(s, Task_create_tag("/fleurInput", "comment", create))
Rec_delete_att(s) ==
    /\ s \in Live
    /\ Record(s, Task_delete_att(ScfLoopPath, "itmax"))
Rec_delete_tag(s) ==
    /\ s \in Live
    /\ Record(s, Task_delete_tag(ScfLoopPath))
Rec_replace_tag(s) ==
    /\ s \in Live
    /\ Record(s, Task_replace_tag(KPointListPath,
                                  Element("kPointCount", [count |-> "1", gamma |-> "T"], NoText)))
Rec_set_species(s) ==
    /\ s \in Live
    /\ \E create \in Omitted : Record(s, Task_set_species("Fe", [radius |-> "2"], create))
Rec_set_species_label(s) ==
    /\ s \in Live
    /\ \E create \in Omitted : Record(s, Task_set_species_label("1", [radius |-> "3"], create))
Rec_set_atomgr_att(s) ==
    /\ s \in Live
    /\ \E position \in Omitted, species \in {Some("Fe")}, create \in Omitted :
           Record(s, Task_set_atomgr_att([force |-> "1"], position, species, create))
Rec_set_atomgr_att_label(s) ==
    /\ s \in Live
    /\ \E create \in Omitted : Record(s, Task_set_atomgr_att_label([force |-> "2"], "1", create))
Rec_set_inpchanges(s) ==
    /\ s \in Live
    /\ \E change_dict \in {[itmax |-> 1], [nokey |-> 1]} :
           Record(s, Task_set_inpchanges(change_dict))
Rec_set_nkpts(s) ==
    /\ s \in Live
    /\ \E gamma \in Omitted : Record(s, Task_set_nkpts(2, gamma))
Rec_add_num_to_att(s) ==
    /\ s \in Live
    /\ \E mode \in Omitted, occ \in Omitted, create \in Omitted :
           Record(s, Task_add_num_to_att(ScfLoopPath, "itmax", 1, mode, occ, create))

\* a task whose name is in no table, appended to the list that changes() hands out
UnknownTask == <<"set_kpath", KPointListPath>>
AppendToChanges(s) ==
    /\ s \in Live
    /\ Used < MaxCalls
    /\ _tasks' = [_tasks EXCEPT ![s] = Append(@, UnknownTask)]
    /\ nrec' = nrec + 1
    /\ last' = Call("changes().append", s)
    /\ UNCHANGED <<nodes, links, _original, frozen, ctx>>

\* the caller changes a dict it has passed to set_species: the task holds the dict
\* itself, not a copy of it
ChangeArgument(s) ==
    /\ s \in Live
    /\ \E i \in 1..Len(_tasks[s]) :
          /\ _tasks[s][i][1] = "set_species"
          /\ _tasks[s][i][3] = [radius |-> "2"]
          /\ _tasks' = [_tasks EXCEPT ![s][i][3] = [radius |-> "9"]]
    /\ last' = Call("attributedict['radius'] = '9'", s)
    /\ UNCHANGED <<nodes, links, _original, nrec, frozen, ctx>>

\* get_avail_actions(self): the names under which the recording methods are offered
get_avail_actions ==
    {"xml_set_attribv_occ", "xml_set_first_attribv", "xml_set_all_attribv", "xml_set_text",
     "xml_set_text_occ", "xml_set_all_text", "create_tag", "replace_tag", "delete_tag",
     "delete_att", "set_species", "set_species_label", "set_atomgr_att",
     "set_atomgr_att_label", "set_inpchanges", "set_nkpts", "add_num_to_att"}

----------------------------------------------------------------------------
(* validate, show, changes, undo *)

SchemaTree == Some("FleurInputSchema.xsd")

\* validate(self): None and a message when the schema file cannot be parsed, else the
\* tree apply_modifications returns for the parsed inp.xml of the baseline
\* tree = self.apply_modifications(...); return tree
Tree(r) ==
    [ret |-> IF IsNone(r.err) THEN Some(r.workingtree) ELSE None, err |-> r.err,
     applied |-> r.applied, printed |-> r.printed]

\* a faulty variant: without a schema file the tasks are replayed unvalidated
validate_Unchecked(original, tasks) ==
    Tree(apply_modifications(Parse(original.file, FALSE), tasks,
                             IF original.schema THEN SchemaTree ELSE None))

validate(original, tasks) ==
    IF ~original.schema
    THEN [ret |-> None, err |-> None, applied |-> <<>>, printed |-> <<"No schema file found">>]
    ELSE Tree(apply_modifications(Parse(original.file, FALSE), tasks, SchemaTree))

\* show(self, display, validate): the tree of validate(), or of apply_modifications
\* without a schema; with display the tree is serialized and printed
\* if display: print(etree.tostring(tree)); return tree
Display(got, display) ==
    IF ~IsNone(got.err) \/ ~display THEN got
    ELSE IF IsNone(got.ret) THEN [got EXCEPT !.err = <<"TypeError", "etree.tostring">>]
    ELSE [got EXCEPT !.printed = Append(@, "xmltreestring")]

show(original, tasks, display, with_validate) ==
    Display(IF with_validate THEN validate(original, tasks)
            ELSE Tree(apply_modifications(Parse(original.file, FALSE), tasks, None)),
            display)

Returned(name, s, got) ==
    [Call(name, s) EXCEPT !.tree = got.ret, !.err = got.err, !.applied = got.applied,
                          !.printed = got.printed]

\* a faulty variant: the replay takes the tasks off the list
Validate_Consuming(s) ==
    /\ s \in Live
    /\ last' = Returned("validate", s, validate(Original(s), _tasks[s]))
    /\ _tasks' = [_tasks EXCEPT ![s] = <<>>]
    /\ UNCHANGED <<nodes, links, _original, nrec, frozen, ctx>>

Validate(s) ==
    /\ s \in Live
    /\ last' = Returned("validate", s, validate(Original(s), _tasks[s]))
    /\ UNCHANGED <<nodes, links, _original, _tasks, nrec, frozen, ctx>>

Show(s) ==
    /\ s \in Live
    /\ \E display \in BOOLEAN, with_validate \in BOOLEAN :
          last' = [Returned(IF with_validate THEN "show(validate=True)" ELSE "show", s,
                            show(Original(s), _tasks[s], display, with_validate))
                   EXCEPT !.display = display]
    /\ UNCHANGED <<nodes, links, _original, _tasks, nrec, frozen, ctx>>

\* changes(self): prints the task list and returns it
Changes(s) ==
    /\ s \in Live
    /\ last' = [Call("changes", s) EXCEPT !.printed = <<"pprint(self._tasks)">>]
    /\ UNCHANGED <<nodes, links, _original, _tasks, nrec, frozen, ctx>>

\* list.pop(): the list without its last item; IndexError on an empty list
pop(tasks) ==
    IF tasks = <<>> THEN [tasks |-> tasks, err |-> <<"IndexError", "pop from empty list">>]
    ELSE [tasks |-> SubSeq(tasks, 1, Len(tasks) - 1), err |-> None]

\* a faulty variant: the first task is removed, not the last
undo_First(tasks, all) ==
    IF all THEN [tasks |-> <<>>, err |-> None]
    ELSE IF tasks # <<>> THEN [tasks |-> Tail(tasks), err |-> None]
    ELSE [tasks |-> tasks, err |-> None]

\* a faulty variant: all=True removes one task as all=False does
undo_IgnoresAll(tasks, all) ==
    IF tasks # <<>> THEN pop(tasks)
    ELSE [tasks |-> tasks, err |-> None]

\* a faulty variant: the list is popped without a look at it
undo_Unguarded(tasks, all) ==
    IF all THEN [tasks |-> <<>>, err |-> None]
    ELSE pop(tasks)

\* undo(self, all): the task list it leaves, and the error raised
undo(tasks, all) ==
    IF all THEN [tasks |-> <<>>, err |-> None]
    ELSE IF tasks # <<>> THEN pop(tasks)
    ELSE [tasks |-> tasks, err |-> None]

Undo(s) ==
    /\ s \in Live
    /\ \E all \in BOOLEAN :
          /\ _tasks' = [_tasks EXCEPT ![s] = undo(@, all).tasks]
          /\ last' = [Call(IF all THEN "undo(all=True)" ELSE "undo", s)
                      EXCEPT !.err = undo(_tasks[s], all).err]
    /\ UNCHANGED <<nodes, links, _original, nrec, frozen, ctx>>

----------------------------------------------------------------------------
(* freeze and the calcfunction modify_fleurinpdata *)

\* DataFactory("dict")(dict={"tasks": self._tasks}): every tuple becomes a list, every
\* value its JSON form
Serialize(tasks) == [i \in 1..Len(tasks) |-> [j \in 1..Len(tasks[i]) |-> tasks[i][j]]]
Dict(tasks) == [tasks |-> Serialize(tasks), label |-> "Fleurinpdata modifications"]

SchemaError == <<"ValueError", "Input file is not validated against the schema.">>

\* modify_fleurinpdata(original, modifications): the clone with the edited inp.xml, or
\* the error raised
\* a faulty variant: the tree is written and the clone returned although a task raised
Rewritten_Partial(new_fleurinp, r) ==
    [new_fleurinp |-> Some([new_fleurinp EXCEPT !.file = r.workingtree,
                                                !.label = "mod_fleurinp"]),
     err |-> r.err, applied |-> r.applied, printed |-> r.printed]

\* new_fleurtree written to the clone in place of its inp.xml, and the clone labelled
Rewritten(new_fleurinp, r) ==
    IF ~IsNone(r.err)
    THEN [new_fleurinp |-> None, err |-> r.err, applied |-> r.applied, printed |-> r.printed]
    ELSE [new_fleurinp |-> Some([new_fleurinp EXCEPT !.file = r.workingtree,
                                                     !.label = "mod_fleurinp"]),
          err |-> None, applied |-> r.applied, printed |-> r.printed]

\* a faulty variant: the baseline is not validated
BaselineValid_Skipped(tree) == TRUE

\* the baseline's tree with the includes resolved must validate before the tasks run
BaselineValid(tree) == SchemaValidate(ResolvedCopy(tree).tree_x)

modify_fleurinpdata(original, modifications) ==
    IF ~original.schema
    THEN [new_fleurinp |-> None, err |-> <<"IOError", "_schema_file_path">>,
          applied |-> <<>>, printed |-> <<>>]
    ELSE IF ~BaselineValid(Parse(original.file, TRUE))
    THEN [new_fleurinp |-> None, err |-> SchemaError, applied |-> <<>>, printed |-> <<>>]
    ELSE Rewritten(original,
                   apply_modifications(ResolvedCopy(Parse(original.file, TRUE)).tree,
                                       modifications.tasks, None))

\* a faulty variant: the task list is not an input of the calcfunction
Link_Untracked(original, modifications, out) ==
    [process |-> "modify_fleurinpdata", inputs |-> [original |-> original], output |-> out]

\* what the calcfunction records of a run that returned: its inputs and its output
Link(original, modifications, out) ==
    [process |-> "modify_fleurinpdata",
     inputs |-> [original |-> original, modifications |-> modifications],
     output |-> out]

\* freeze(self): modify_fleurinpdata on the baseline and the Dict of the task list; the
\* node it returns is stored as a new node
\* a faulty variant: the edited file is written into the baseline node itself
Persist_InPlace(db, original, new_fleurinp) ==
    Append([db EXCEPT ![original] = new_fleurinp], new_fleurinp)

\* new_fleurinp = original.clone() ... return new_fleurinp: the database once the clone
\* that was returned is stored, the node it was cloned from left as it is
Persist(db, original, new_fleurinp) == Append(db, new_fleurinp)

\* the calcfunction stores the node that modify_fleurinpdata returns and links it to the
\* inputs; an exception stores no node
Store(s, modifications, got) ==
    IF ~IsNone(got.new_fleurinp)
    THEN /\ Used < MaxCalls
         /\ nodes' = Persist(nodes, Val(_original[s]), Val(got.new_fleurinp))
         /\ links' = links \cup {Link(Val(_original[s]), modifications, Len(nodes) + 1)}
         /\ frozen' = [frozen EXCEPT ![s] = Append(@, Len(nodes) + 1)]
         /\ last' = [Call("freeze", s) EXCEPT !.out = Some(Len(nodes) + 1),
                                              !.err = got.err,
                                              !.applied = got.applied,
                                              !.printed = got.printed]
    ELSE /\ UNCHANGED <<nodes, links, frozen>>
         /\ last' = [Call("freeze", s) EXCEPT !.err = got.err,
                                              !.applied = got.applied,
                                              !.printed = got.printed]

Freeze(s) ==
    /\ s \in Live
    /\ Store(s, Dict(_tasks[s]), modify_fleurinpdata(Original(s), Dict(_tasks[s])))
    /\ UNCHANGED <<_original, _tasks, nrec, ctx>>

----------------------------------------------------------------------------
(* Construction of a further session *)

\* isinstance(original, FleurinpData)
IsFleurinpData(original) ==
    "type" \in DOMAIN original /\ original.type = "fleur.fleurinp"

\* a faulty variant: the new session starts with a task in its list
__init___Preloaded(original) ==
    IF ~IsFleurinpData(original)
    THEN [_tasks |-> None, err |-> <<"AssertionError", "Wrong AiiDA data type">>]
    ELSE [_tasks |-> Some(<<UnknownTask>>), err |-> None]

\* __init__(self, original): the task list the session starts with, or the error of
\* the assert
__init__(original) ==
    IF ~IsFleurinpData(original)
    THEN [_tasks |-> None, err |-> <<"AssertionError", "Wrong AiiDA data type">>]
    ELSE [_tasks |-> Some(<<>>), err |-> None]

\* FleurinpModifier(original), original being a stored node (ref its id) or, with
\* ref = 0, a Dict node
Construct(s) ==
    /\ s \notin Live
    /\ Used < MaxCalls
    /\ \E ref \in 0..Len(nodes) :
          LET made == __init__(IF ref = 0 THEN Dict(<<>>) ELSE nodes[ref])
          IN  /\ _original' = [_original EXCEPT ![s] = IF IsNone(made.err) THEN Some(ref) ELSE @]
              /\ _tasks' = [_tasks EXCEPT ![s] = IF IsNone(made.err) THEN Val(made._tasks) ELSE @]
              /\ last' = [Call("__init__", s) EXCEPT !.err = made.err]
    /\ UNCHANGED <<nodes, links, nrec, frozen, ctx>>

----------------------------------------------------------------------------

Next ==
    \E s \in Sessions :
        \/ Rec_xml_set_attribv_occ(s)
        \/ Rec_xml_set_first_attribv(s)
        \/ Rec_xml_set_all_attribv(s)
        \/ Rec_xml_set_text(s)
        \/ Rec_xml_set_text_occ(s)
        \/ Rec_xml_set_all_text(s)
        \/ Rec_create_tag(s)
        \/ Rec_delete_att(s)
        \/ Rec_delete_tag(s)
        \/ Rec_replace_tag(s)
        \/ Rec_set_species(s)
        \/ Rec_set_species_label(s)
        \/ Rec_set_atomgr_att(s)
        \/ Rec_set_atomgr_att_label(s)
        \/ Rec_set_inpchanges(s)
        \/ Rec_set_nkpts(s)
        \/ Rec_add_num_to_att(s)
        \/ AppendToChanges(s)
        \/ ChangeArgument(s)
        \/ Validate(s)
        \/ Show(s)
        \/ Changes(s)
        \/ Undo(s)
        \/ Freeze(s)
        \/ Construct(s)

Spec == Init /\ [][Next]_vars

----------------------------------------------------------------------------
(* The workchain fleur_mae_wc.  ctx is self.ctx and the position in the     *)
(* outline; the angles 1.57079 and 0.0 of the spin quantization axis are    *)
(* written 1 and 0.                                                         *)

Directions == <<"x", "y", "z">>

\* the parameter names of the recording methods the workchains call by keyword
Signature ==
    [set_species |-> <<"species_name", "attributedict", "create">>,
     set_inpchanges |-> <<"change_dict">>,
     add_num_to_att |-> <<"xpathn", "attributename", "set_val", "mode", "occ", "create">>]

\* method(**para): the task the recording method stores for the keywords, a TypeError
\* for a keyword that is none of its parameters
CallMethod(function, para) ==
    IF ~(DOMAIN para \subseteq Range(Signature[function]))
    THEN [task |-> None, err |-> <<"TypeError", "unexpected keyword argument">>]
    ELSE [task |-> Some(CASE function = "set_inpchanges" -> Task_set_inpchanges(para.change_dict)
                          [] function = "set_species" ->
                                Task_set_species(para.species_name, para.attributedict,
                                                 Some(para.create))
                          [] function = "add_num_to_att" ->
                                Task_add_num_to_att(para.xpathn, para.attributename,
                                                    para.set_val, Some(para.mode),
                                                    Some(para.occ), Some(para.create))),
          err |-> None]

\* fchanges of change_fleurinp: theta, phi of the direction and itmax = 1
FChanges(SQA_direction) ==
    LET theta == IF SQA_direction = "z" THEN 0 ELSE 1
        phi == IF SQA_direction = "y" THEN 1 ELSE 0
    IN  <<<<"set_inpchanges", [change_dict |-> [theta |-> theta, phi |-> phi, itmax |-> 1]]>>>>

\* control_end_wc(errormsg) calls self.return_results(), which fleur_mae_wc does not
\* have: the exception it ends with
control_end_wc(errormsg) ==
    <<"AttributeError", "'fleur_mae_wc' object has no attribute 'return_results'">>

\* for change in fchanges: method = avail_ac_dict.get(function, None); method(**para).
\* The tasks recorded and the calls made on the modifier up to the first entry whose
\* function is not known
RECURSIVE Recorded(_, _, _)
Recorded(fchanges, i, acc) ==
    IF i > Len(fchanges) THEN acc
    ELSE IF fchanges[i][1] \notin get_avail_actions THEN [acc EXCEPT !.unknown = TRUE]
    ELSE Recorded(fchanges, i + 1,
                  [acc EXCEPT !.tasks = Append(@, Val(CallMethod(fchanges[i][1], fchanges[i][2]).task)),
                              !.calls = Append(@, fchanges[i][1])])

\* a faulty variant: ctx.fleurinp keeps the document it already holds
Freezing_KeepingFirst(db, lk, c, fleurin, rec, out) ==
    IF IsNone(out.new_fleurinp)
    THEN [nodes |-> db, links |-> lk, fleurinp |-> c.fleurinp,
          calls |-> rec.calls \o <<"show", "freeze">>, err |-> out.err]
    ELSE [nodes |-> Persist(db, fleurin, Val(out.new_fleurinp)),
          links |-> lk \cup {Link(fleurin, Dict(rec.tasks), Len(db) + 1)},
          fleurinp |-> IF IsNone(c.fleurinp) THEN Some(Len(db) + 1) ELSE c.fleurinp,
          calls |-> rec.calls \o <<"show", "freeze">>, err |-> None]

\* out = fleurmode.freeze(); self.ctx.fleurinp = out.  out is what modify_fleurinpdata
\* gave: its exception ends the step, its node is stored, linked and put into ctx
Freezing(db, lk, c, fleurin, rec, out) ==
    IF IsNone(out.new_fleurinp)
    THEN [nodes |-> db, links |-> lk, fleurinp |-> c.fleurinp,
          calls |-> rec.calls \o <<"show", "freeze">>, err |-> out.err]
    ELSE [nodes |-> Persist(db, fleurin, Val(out.new_fleurinp)),
          links |-> lk \cup {Link(fleurin, Dict(rec.tasks), Len(db) + 1)},
          fleurinp |-> Some(Len(db) + 1),
          calls |-> rec.calls \o <<"show", "freeze">>, err |-> None]

\* a faulty variant: freeze() is called although show() raised
Shown_Unguarded(db, lk, c, fleurin, rec, got, out) ==
    Freezing(db, lk, c, fleurin, rec, out)

\* got is what fleurmode.show(display=False, validate=True) gave: an exception of it
\* meets "except XMLSyntaxError", a name that mae.py does not import
Shown(db, lk, c, fleurin, rec, got, out) ==
    IF ~IsNone(got.err)
    THEN [nodes |-> db, links |-> lk, fleurinp |-> c.fleurinp,
          calls |-> Append(rec.calls, "show"),
          err |-> <<"NameError", "name 'XMLSyntaxError' is not defined">>]
    ELSE Freezing(db, lk, c, fleurin, rec, out)

\* change_fleurinp(self, SQA_direction): the database, ctx.fleurinp and the calls made
\* on the modifier when it ends, and the exception it ends with
change_fleurinp(db, lk, c, SQA_direction) ==
    LET rec == Recorded(FChanges(SQA_direction), 1,
                        [tasks |-> <<>>, calls |-> <<"__init__", "get_avail_actions">>,
                         unknown |-> FALSE])
    IN  IF IsNone(c.xyz)
        THEN [nodes |-> db, links |-> lk, fleurinp |-> c.fleurinp, calls |-> <<>>,
              err |-> control_end_wc("no fleurinp of the reference calculation")]
        ELSE IF rec.unknown
        THEN [nodes |-> db, links |-> lk, fleurinp |-> c.fleurinp, calls |-> rec.calls,
              err |-> control_end_wc("function is not known to fleurinpmodifier")]
        ELSE Shown(db, lk, c, Val(c.xyz), rec,
                   show(db[Val(c.xyz)], rec.tasks, FALSE, TRUE),
                   modify_fleurinpdata(db[Val(c.xyz)], Dict(rec.tasks)))

\* an inp.xml without the soc tag
InpXmlNoSoc == [InpXml EXCEPT !.el = [@ EXCEPT ![SocPath] = <<>>]]

\* start and validate_input: the context before converge_scf, force_th as the
\* wf_parameters give it
MaeInit ==
    /\ nodes = <<>>
    /\ links = {}
    /\ _original = [s \in Sessions |-> None]
    /\ _tasks = [s \in Sessions |-> <<>>]
    /\ nrec = 0
    /\ frozen = [s \in Sessions |-> <<>>]
    /\ last = Call("start", "s1")
    /\ \E force_th \in BOOLEAN :
          ctx = [step |-> "converge_scf", force_th |-> force_th, xyz |-> None,
                 fleurinp |-> None, todo |-> Directions, force |-> <<>>, calls |-> <<>>,
                 energy |-> None, err |-> None, out |-> None]

\* converge_scf: the scf workchains are submitted; with the force theorem the reference
\* one leaves a fleurinp in the database, or fails and leaves none
ConvergeScf ==
    /\ ctx.step = "converge_scf"
    /\ IF ctx.force_th
       THEN \/ \E b \in Baselines \cup {FleurinpData(InpXmlNoSoc, TRUE)} :
                  /\ nodes' = Append(nodes, b)
                  /\ ctx' = [ctx EXCEPT !.step = "mae_force", !.xyz = Some(Len(nodes) + 1)]
            \/ /\ ctx' = [ctx EXCEPT !.step = "mae_force"]
               /\ UNCHANGED nodes
       ELSE /\ ctx' = [ctx EXCEPT !.step = "get_results_converge"]
            /\ UNCHANGED nodes
    /\ UNCHANGED <<links, _original, _tasks, nrec, frozen, last>>

\* one turn of "for SQA_direction in ['x', 'y', 'z']": r is what change_fleurinp left;
\* its exception ends the step, else the calculation is submitted with ctx.fleurinp
Submit(SQA_direction, r) ==
    /\ nodes' = r.nodes
    /\ links' = r.links
    /\ ctx' = IF ~IsNone(r.err)
              THEN [ctx EXCEPT !.step = "excepted", !.err = r.err, !.calls = r.calls]
              ELSE [ctx EXCEPT !.fleurinp = r.fleurinp,
                               !.calls = r.calls,
                               !.todo = Tail(@),
                               !.force = Append(@, [SQA_direction |-> SQA_direction,
                                                    fleurin |-> Val(r.fleurinp)]),
                               !.step = IF Len(ctx.todo) = 1 THEN "get_res_force" ELSE @]

MaeForce ==
    /\ ctx.step = "mae_force"
    /\ Submit(Head(ctx.todo), change_fleurinp(nodes, links, ctx, Head(ctx.todo)))
    /\ UNCHANGED <<_original, _tasks, nrec, frozen, last>>


\* 27.21138602, as a whole number
htr2eV == 27

\* the total energies a calculation can report
Energies == 0..MaxEnergy

\* labelmin = <last label>; for labels in [...]: if t_energydict[labels] <
\* t_energydict[labels]: labelmin = labels (a label without energy is passed over)
RECURSIVE LabelMin(_, _, _)
LabelMin(t_energydict, labels, labelmin) ==
    IF labels = <<>> THEN labelmin
    ELSE LabelMin(t_energydict, Tail(labels),
                  IF /\ Head(labels) \in DOMAIN t_energydict
                     /\ t_energydict[Head(labels)] < t_energydict[Head(labels)]
                  THEN Head(labels) ELSE labelmin)

\* get_res_force: the energies of the three force theorem calculations less the
\* energy of the label found minimal, times htr2eV ("if e_u == 'Htr' or 'htr'" is
\* true for every e_u)
get_res_force(t_energydict, e_u) ==
    LET minenergy == t_energydict[LabelMin(t_energydict, <<"MAE_y", "MAE_x">>, "MAE_z")]
    IN  [out |-> Some([MAE_x |-> (t_energydict.MAE_x - minenergy) * htr2eV,
                       MAE_y |-> (t_energydict.MAE_y - minenergy) * htr2eV,
                       MAE_z |-> (t_energydict.MAE_z - minenergy) * htr2eV,
                       MAE_units |-> e_u]),
         err |-> None]

\* get_results_converge: a scf workchain without output node is passed over, one that
\* was not successful meets self.ctx.warning, which is not in the context; the
\* energies found are multiplied by htr2eV, then the minimal one is subtracted
get_results_converge(outcome, energy, e_u) ==
    LET labels == {l \in Range(Directions) : outcome[l] # "no_output"}
        t_energydict == [l \in labels |-> energy[l] * htr2eV]
    IN  IF \E l \in labels : outcome[l] = "unsuccessful"
        THEN [out |-> None, err |-> <<"AttributeError", "warning">>]
        ELSE IF labels # Range(Directions)
        THEN [out |-> None, err |-> <<"KeyError", CHOOSE l \in Range(Directions) : l \notin labels>>]
        ELSE [out |-> Some([MAE_x |-> t_energydict.x - t_energydict[LabelMin(t_energydict, <<"y", "x">>, "z")],
                            MAE_y |-> t_energydict.y - t_energydict[LabelMin(t_energydict, <<"y", "x">>, "z")],
                            MAE_z |-> t_energydict.z - t_energydict[LabelMin(t_energydict, <<"y", "x">>, "z")],
                            MAE_units |-> e_u]),
              err |-> None]

\* the energies the calculations in the context report, and
\* self.out('out', ParameterData(dict=out)) or the exception of the step
Out(step, energy, got) ==
    ctx' = [ctx EXCEPT !.step = IF IsNone(got.err) THEN "done" ELSE "excepted",
                       !.energy = Some(energy),
                       !.out = got.out,
                       !.err = got.err,
                       !.calls = <<step>>]

GetResForce ==
    /\ ctx.step = "get_res_force"
    /\ \E e \in [{"MAE_x", "MAE_y", "MAE_z"} -> Energies], e_u \in {"Htr", "eV"} :
          Out("get_res_force", e, get_res_force(e, e_u))
    /\ UNCHANGED <<nodes, links, _original, _tasks, nrec, frozen, last>>

GetResultsConverge ==
    /\ ctx.step = "get_results_converge"
    /\ \E outcome \in [Range(Directions) -> {"ok", "unsuccessful", "no_output"}],
          e \in [Range(Directions) -> Energies], e_u \in {"Htr", "eV"} :
          Out("get_results_converge", e, get_results_converge(outcome, e, e_u))
    /\ UNCHANGED <<nodes, links, _original, _tasks, nrec, frozen, last>>

MaeNext ==
    \/ ConvergeScf
    \/ MaeForce
    \/ GetResForce
    \/ GetResultsConverge

MaeSpec == MaeInit /\ [][MaeNext]_vars

----------------------------------------------------------------------------
(* The workchain fleur_corehole_wc, from check_input to run_ref_scf.  The   *)
(* structure, the atoms and the corelevels of the input are present as the  *)
(* number of coreholes they ask for.                                        *)

\* check_input: the context as the inputs and wf_parameters give it
CoreholeInit ==
    /\ nodes = <<>>
    /\ links = {}
    /\ _original = [s \in Sessions |-> None]
    /\ _tasks = [s \in Sessions |-> <<>>]
    /\ nrec = 0
    /\ frozen = [s \in Sessions |-> <<>>]
    /\ last = Call("check_input", "s1")
    /\ \E method \in {"valence", "charge", "full"}, magnetic \in BOOLEAN,
          ref_para \in {None, Some("ParameterData")}, scf_para \in {"default", "dict"},
          holes \in 0..MaxHoles :
          ctx = [step |-> "create_supercell", method |-> method, magnetic |-> magnetic,
                 hole_charge |-> 1, ref_para |-> ref_para, scf_para |-> scf_para,
                 holes |-> holes, calcs_ref_torun |-> <<>>, calcs_torun |-> <<>>,
                 labels |-> <<>>, calcs |-> <<>>, report |-> <<>>, err |-> None]

\* create_supercell: new_calc = [supercell_s, calc_para] is put on calcs_ref_torun
CreateSupercell ==
    /\ ctx.step = "create_supercell"
    /\ ctx' = [ctx EXCEPT !.step = "create_coreholes",
                          !.calcs_ref_torun =
                              Append(@, [type |-> "list",
                                         items |-> <<Some("StructureData"), ctx.ref_para>>])]
    /\ UNCHANGED <<nodes, links, _original, _tasks, nrec, frozen, last>>

\* a faulty variant: the change of the valence charge comes last
fleurinp_change_ChargeLast(change_kind, state_tag_list, correct_val_charge, hole_charge, magnetic) ==
    <<<<"set_species", [species_name |-> change_kind,
                        attributedict |-> [electronConfig |-> [stateOccupation |-> state_tag_list]],
                        create |-> FALSE]>>>>
    \o (IF magnetic THEN <<<<"set_inpchanges", [change_dict |-> [jspins |-> 2]]>>>> ELSE <<>>)
    \o (IF correct_val_charge
        THEN <<<<"add_num_to_att", [xpathn |-> BzIntegrationPath,
                                    attributename |-> "valenceElectrons",
                                    set_val |-> 1 - hole_charge, mode |-> "abs",
                                    occ |-> <<0>>, create |-> FALSE]>>>>
        ELSE <<>>)

\* fleurinp_change of one corehole: the changes appended for it, in their order
fleurinp_change(change_kind, state_tag_list, correct_val_charge, hole_charge, magnetic) ==
    <<<<"set_species", [species_name |-> change_kind,
                        attributedict |-> [electronConfig |-> [stateOccupation |-> state_tag_list]],
                        create |-> FALSE]>>>>
    \o (IF correct_val_charge
        THEN <<<<"add_num_to_att", [xpathn |-> BzIntegrationPath,
                                    attributename |-> "valenceElectrons",
                                    set_val |-> 1 - hole_charge, mode |-> "abs",
                                    occ |-> <<0>>, create |-> FALSE]>>>>
        ELSE <<>>)
    \o (IF magnetic THEN <<<<"set_inpchanges", [change_dict |-> [jspins |-> 2]]>>>> ELSE <<>>)

\* create_coreholes: method binds hole_charge and correct_val_charge, or neither; the
\* loop over the coreholes reads both; the loop over corehole_to_create copies
\* ctx.scf_para, which is the string 'default' or a dict.  The inpxml_changes of the
\* calculations put on calcs_torun, or the exception
create_coreholes(c) ==
    LET bound == c.method \in {"valence", "charge"}
        correct_val_charge == c.method = "charge"
    IN  IF c.holes = 0 THEN [calcs_torun |-> <<>>, err |-> None]
        ELSE IF ~bound
        THEN [calcs_torun |-> c.calcs_torun,
              err |-> <<"UnboundLocalError", "local variable 'hole_charge' referenced before assignment">>]
        ELSE IF c.scf_para = "default"
        THEN [calcs_torun |-> c.calcs_torun,
              err |-> <<"AttributeError", "'str' object has no attribute 'copy'">>]
        ELSE [calcs_torun |-> [i \in 1..c.holes |->
                                  fleurinp_change("Fe-1", "state_tag_list", correct_val_charge,
                                                  c.hole_charge, c.magnetic)],
              err |-> None]

CreateCoreholes ==
    /\ ctx.step = "create_coreholes"
    /\ ctx' = [ctx EXCEPT !.calcs_torun = create_coreholes(ctx).calcs_torun,
                          !.err = create_coreholes(ctx).err,
                          !.step = IF IsNone(create_coreholes(ctx).err)
                                   THEN "run_ref_scf" ELSE "excepted"]
    /\ UNCHANGED <<nodes, links, _original, _tasks, nrec, frozen, last>>

\* the loop of run_ref_scf from entry i on: res is the local variable res (None while
\* it is unbound), run what the loop has appended and reported so far
RECURSIVE run_ref_scf(_, _, _, _)
run_ref_scf(calcs_ref_torun, i, res, run) ==
    IF i > Len(calcs_ref_torun) THEN [run EXCEPT !.calcs_ref_torun = <<>>]
    ELSE LET node == calcs_ref_torun[i]
             label == <<"calc_ref", i>>
             Labelled(r, w) ==
                 IF IsNone(r)
                 THEN [run EXCEPT !.labels = Append(@, label),
                                  !.report = @ \o w,
                                  !.err = <<"UnboundLocalError",
                                            "local variable 'res' referenced before assignment">>]
                 ELSE run_ref_scf(calcs_ref_torun, i + 1, r,
                                  [run EXCEPT !.labels = Append(@, label),
                                              !.report = @ \o w,
                                              !.calcs = Append(@, [label |-> label, res |-> Val(r)])])
         IN  IF node.type \in {"StructureData", "FleurinpData"}
             THEN Labelled(Some([structure |-> node, calc_parameters |-> None]), <<>>)
             ELSE IF node.type = "list"
             THEN IF node.items[1] = Some("StructureData") /\ node.items[2] = Some("ParameterData")
                  THEN Labelled(Some([structure |-> node.items[1],
                                      calc_parameters |-> node.items[2]]), <<>>)
                  ELSE Labelled(res, <<"WARNING: a tuple in run_ref_scf which I do not reconise">>)
             ELSE run_ref_scf(calcs_ref_torun, i + 1, res,
                              [run EXCEPT !.report =
                                   Append(@, "WARNING: something in run_ref_scf which I do not reconise")])

RunRefScf ==
    /\ ctx.step = "run_ref_scf"
    /\ LET run == run_ref_scf(ctx.calcs_ref_torun, 1, None, ctx)
       IN  ctx' = [run EXCEPT !.step = IF IsNone(run.err) THEN "check_scf" ELSE "excepted"]
    /\ UNCHANGED <<nodes, links, _original, _tasks, nrec, frozen, last>>

CoreholeNext ==
    \/ CreateSupercell
    \/ CreateCoreholes
    \/ RunRefScf

CoreholeSpec == CoreholeInit /\ [][CoreholeNext]_vars

----------------------------------------------------------------------------
(* Properties of replay, validation and freeze *)

\* the calls that replay the task list
ReplayCalls == {"validate", "show", "show(validate=True)", "freeze"}

\* the session of the last call, its baseline node and its task list
LastOriginal == Original(last.session)
LastTasks == _tasks[last.session]

\* the last call reached apply_modifications: validate() needs the schema file, freeze()
\* the schema file and a baseline that validates
Replayed ==
    CASE last.call = "show" -> TRUE
      [] last.call \in {"validate", "show(validate=True)"} -> LastOriginal.schema
      [] last.call = "freeze" ->
            LastOriginal.schema /\ SchemaValidate(XInclude(LastOriginal.file))
      [] OTHER -> FALSE

\* the document the last call produced: the tree returned, or the file of the node stored
Produced ==
    IF ~IsNone(last.tree) THEN last.tree
    ELSE IF ~IsNone(last.out) THEN Some(nodes[Val(last.out)].file)
    ELSE None

ItMax(tree) == tree.el[ScfLoopPath][1].att.itmax

\* C1: apply_modifications takes the tasks in list order, each once: the tasks it has
\* applied when it stops are the first tasks of the list, in the order of the list, and
\* when it returns a document it has applied the whole list.
C1_TasksAppliedInListOrder ==
    Replayed =>
        /\ Len(last.applied) <= Len(LastTasks)
        /\ last.applied = SubSeq(LastTasks, 1, Len(last.applied))
        /\ ~IsNone(Produced) => last.applied = LastTasks

\* C1 witness: two different tasks on the same attribute replayed by show(): itmax set
\* to 2, then 1 added to it, gives 3 (the other order gives 2)
C1_Witness ==
    /\ last.call = "show"
    /\ Len(LastTasks) = 2
    /\ LastTasks[1][1] = "xml_set_attribv_occ"
    /\ LastTasks[2][1] = "add_num_to_att"
    /\ last.applied = LastTasks
    /\ ~IsNone(last.tree)
    /\ ItMax(Val(last.tree)) = "3"

C3_ReplayComposes ==
    (last.call = "show" /\ ~IsNone(last.tree)) =>
        \A k \in 0..Len(LastTasks) :
            LET first == apply_modifications(Parse(LastOriginal.file, FALSE),
                                             SubSeq(LastTasks, 1, k), None)
                second == apply_modifications(first.workingtree,
                                              SubSeq(LastTasks, k + 1, Len(LastTasks)), None)
            IN  /\ IsNone(first.err)
                /\ IsNone(second.err)
                /\ second.workingtree = Val(last.tree)

\* C3 witness: show() returned the tree of two tasks, the same one twice
C3_Witness ==
    /\ last.call = "show"
    /\ ~IsNone(last.tree)
    /\ Len(LastTasks) = 2
    /\ LastTasks[1][1] = "add_num_to_att"
    /\ LastTasks[1] = LastTasks[2]
    /\ ItMax(Val(last.tree)) = "7"

\* C4: validate(), show() and freeze(), whether they return or raise, leave the
\* baseline as it was: every session keeps its baseline reference and every node that
\* was stored keeps its content.
C4_BaselineNotMutated ==
    [][last'.call \in ReplayCalls =>
          /\ _original' = _original
          /\ \A n \in 1..Len(nodes) : n <= Len(nodes') /\ nodes'[n] = nodes[n]]_vars

\* C4 witness: freeze() has stored a document that differs from the baseline's
C4_Witness ==
    /\ last.call = "freeze"
    /\ ~IsNone(last.out)
    /\ nodes[Val(last.out)].file.el # LastOriginal.file.el

\* C5: freeze() on a baseline that, its includes resolved, does not validate against
\* its schema raises the schema error, applies no task and returns no node.
C5_FreezeGatedOnBaseline ==
    (/\ last.call = "freeze"
     /\ LastOriginal.schema
     /\ ~SchemaValidate(XInclude(LastOriginal.file)))
    => (/\ last.err = SchemaError
        /\ last.applied = <<>>
        /\ IsNone(last.out)
        /\ \A l \in links : l.inputs.original # Val(_original[last.session]))

\* C5 witness: freeze() with a task recorded, on the baseline that does not validate
C5_Witness ==
    /\ last.call = "freeze"
    /\ LastOriginal.schema
    /\ ~SchemaValidate(XInclude(LastOriginal.file))
    /\ LastTasks # <<>>
    /\ last.err = SchemaError

\* the place of the first task of unknown name in a list (0: there is none)
FirstUnknown(tasks) ==
    IF \E i \in 1..Len(tasks) : tasks[i][1] \notin actions
    THEN CHOOSE i \in 1..Len(tasks) :
            /\ tasks[i][1] \notin actions
            /\ \A j \in 1..(i - 1) : tasks[j][1] \in actions
    ELSE 0

\* C6: a replay of a list that holds a task of unknown name returns no document and
\* applies no task at or after that task; when it has applied every task before it, the
\* error is the unknown-task error with the name of that task.
C6_UnknownTaskStopsReplay ==
    (Replayed /\ FirstUnknown(LastTasks) > 0) =>
        /\ IsNone(Produced)
        /\ ~IsNone(last.err)
        /\ Len(last.applied) < FirstUnknown(LastTasks)
        /\ Len(last.applied) = FirstUnknown(LastTasks) - 1 =>
               last.err = <<"ValueError",
                            "Unknown task " \o LastTasks[FirstUnknown(LastTasks)][1]>>

\* C6 witness: the unknown task first and a known one after it
C6_Witness ==
    /\ last.call = "show"
    /\ Len(LastTasks) = 2
    /\ FirstUnknown(LastTasks) = 1
    /\ LastTasks[2][1] \in actions
    /\ last.err = <<"ValueError", "Unknown task set_kpath">>
    /\ last.applied = <<>>

\* C7: a freeze() that raises stores nothing and returns nothing: the database and the
\* provenance are what they were before the call.
C7_FailedFreezeStoresNothing ==
    [][(last'.call = "freeze" /\ ~IsNone(last'.err)) =>
          /\ nodes' = nodes
          /\ links' = links
          /\ IsNone(last'.out)]_vars

\* C7 witness: freeze() raised on an unknown task after it had applied a task
C7_Witness ==
    /\ last.call = "freeze"
    /\ last.err = <<"ValueError", "Unknown task set_kpath">>
    /\ Len(last.applied) = 1
    /\ Len(nodes) = 1
    /\ links = {}

\* C8: the node a successful freeze() returns is not the baseline node, and the
\* calcfunction that made it has two inputs: the baseline, and the Dict of the task list.
C8_FrozenResultIsNewAndLinked ==
    (last.call = "freeze" /\ ~IsNone(last.out)) =>
        /\ Val(last.out) # Val(_original[last.session])
        /\ Val(last.out) \in 1..Len(nodes)
        /\ \E l \in links :
              /\ l.output = Val(last.out)
              /\ DOMAIN l.inputs = {"original", "modifications"}
              /\ l.inputs.original = Val(_original[last.session])
              /\ l.inputs.modifications = Dict(LastTasks)
        /\ \A l, m \in links : l.output = m.output => l = m

\* C8 witness: freeze() returned a node for a list of one task
C8_Witness ==
    /\ last.call = "freeze"
    /\ ~IsNone(last.out)
    /\ Len(LastTasks) = 1

\* C9: every document freeze() stores validates against the schema once its includes
\* are resolved.
C9_FrozenDocumentsValidate ==
    \A l \in links :
        SchemaValidate(XInclude(nodes[l.inputs.original].file)) =>
            SchemaValidate(XInclude(nodes[l.output].file))

\* C10: validate() returns no tree that, its includes resolved, does not validate
\* against the schema.
C10_ValidateRejectsInvalid ==
    (last.call = "validate" /\ ~IsNone(last.tree)) =>
        SchemaValidate(XInclude(Val(last.tree)))

\* the tree a replaying call parses from the baseline's inp.xml: modify_fleurinpdata
\* drops the comments, validate() and show() keep them
LastParsed == Parse(LastOriginal.file, last.call = "freeze")

\* C11: a tree that fails the validation after the tasks is reported and nothing is
\* undone: validate() with a schema raises what the replay without a schema raises,
\* applies the same tasks and returns the same tree, every task's effect in it, and
\* prints the report when that tree does not validate.
C11_InvalidResultIsReportedAndKept ==
    (last.call = "validate" /\ LastOriginal.schema) =>
        LET plain == apply_modifications(LastParsed, LastTasks, None)
        IN  /\ last.err = plain.err
            /\ last.applied = plain.applied
            /\ IsNone(plain.err) =>
                  /\ last.tree = Some(plain.workingtree)
                  /\ last.applied = LastTasks
                  /\ ~SchemaValidate(XInclude(plain.workingtree)) =>
                        "changes were not valid: {}" \in Range(last.printed)

\* C11 witness: validate() on a baseline that validates has applied a task, printed the
\* report and returned the tree
C11_Witness ==
    /\ last.call = "validate"
    /\ SchemaValidate(XInclude(LastOriginal.file))
    /\ Len(last.applied) >= 1
    /\ ~IsNone(last.tree)
    /\ ~SchemaValidate(XInclude(Val(last.tree)))
    /\ last.printed = <<"changes were not valid: {}">>

\* C12: validate() on a baseline whose schema file cannot be loaded says so and does
\* nothing else: no task is applied, no tree is returned, nothing is raised and no node
\* or link is stored.
C12_NoSchemaValidateIsNoOp ==
    /\ []((last.call = "validate" /\ ~LastOriginal.schema) =>
            /\ IsNone(last.tree)
            /\ IsNone(last.out)
            /\ IsNone(last.err)
            /\ last.applied = <<>>
            /\ last.printed = <<"No schema file found">>)
    /\ [][last'.call = "validate" => (nodes' = nodes /\ links' = links)]_vars

\* C12 witness: validate() with a task recorded, on the baseline without a schema file
C12_Witness ==
    /\ last.call = "validate"
    /\ ~LastOriginal.schema
    /\ LastTasks # <<>>
    /\ last.printed = <<"No schema file found">>

\* C13: show() returns the candidate tree whenever the replay of the task list raises
\* nothing, with validate=True as with validate=False, with a schema or without one.
C13_ShowReturnsCandidate ==
    last.call \in {"show", "show(validate=True)"} =>
        LET plain == apply_modifications(LastParsed, LastTasks, None)
        IN  IsNone(plain.err) =>
                /\ IsNone(last.err)
                /\ last.tree = Some(plain.workingtree)

\* C14: the includes are resolved on a copy only: the tree a call returns and the file
\* of every node stored keep the include directives of the baseline unresolved.
C14_IncludesStayUnresolved ==
    /\ \A n \in 1..Len(nodes) : nodes[n].file.inc = "unresolved"
    /\ ~IsNone(last.tree) => Val(last.tree).inc = "unresolved"

\* C14 witness: freeze() has validated the baseline, applied a task and stored the file
C14_Witness ==
    /\ last.call = "freeze"
    /\ ~IsNone(last.out)
    /\ Len(last.applied) >= 1
    /\ nodes[Val(last.out)].file.inc = "unresolved"

\* C15: apply_modifications leaves the tree it is given as it was: after the replay,
\* returned or raised, the tree the caller passed is still the tree that was parsed.
C15_ApplierLeavesGivenTree ==
    Replayed =>
        apply_modifications(LastParsed, LastTasks, None).fleurinp_tree_copy = LastParsed

\* the session of the call a step makes, and its task list before and after the step
Before == _tasks[last'.session]
After == _tasks'[last'.session]
OthersKeep == \A t \in Sessions \ {last'.session} : _tasks'[t] = _tasks[t]
IsPrefix(a, b) == Len(a) <= Len(b) /\ a = SubSeq(b, 1, Len(a))

\* C16: undo() on a list of N >= 1 tasks leaves its first N-1 tasks, as they were and in
\* their order, and raises nothing.
C16_UndoRemovesLast ==
    [][(last'.call = "undo" /\ Before # <<>>) =>
          /\ Len(After) = Len(Before) - 1
          /\ After = SubSeq(Before, 1, Len(Before) - 1)
          /\ IsNone(last'.err)
          /\ OthersKeep]_vars

\* C16 witness: two tasks were recorded and undo() has left the first
C16_Witness ==
    /\ last.call = "undo"
    /\ nrec = 2
    /\ Len(LastTasks) = 1
    /\ IsNone(last.err)

\* C17: after undo(all=True) the session has no task, however many it had.
C17_UndoAllClears ==
    last.call = "undo(all=True)" => (LastTasks = <<>> /\ IsNone(last.err))

\* C17 witness: two tasks were recorded and undo(all=True) has left none
C17_Witness ==
    /\ last.call = "undo(all=True)"
    /\ nrec = 2
    /\ LastTasks = <<>>

\* C18: undo() on an empty task list raises nothing and changes nothing.
C18_UndoOnEmptyIsNoOp ==
    [][(last'.call = "undo" /\ Before = <<>>) =>
          /\ IsNone(last'.err)
          /\ _tasks' = _tasks
          /\ UNCHANGED <<nodes, links, _original, frozen>>]_vars

\* C18 witness: undo() has returned on a session that never recorded a task
C18_Witness ==
    /\ last.call = "undo"
    /\ nrec = 0
    /\ LastTasks = <<>>
    /\ IsNone(last.err)

\* C19: a recording method puts one task, under its own name, at the end of the list
\* and leaves the tasks before it as they were; a step that takes a task off a list is
\* an undo() or an undo(all=True).
C19_TaskListAppendOnly ==
    [][/\ last'.call \in actions =>
            /\ Len(After) = Len(Before) + 1
            /\ IsPrefix(Before, After)
            /\ After[Len(After)][1] = last'.call
            /\ OthersKeep
       /\ (\E s \in Sessions : Len(_tasks'[s]) < Len(_tasks[s])) =>
            last'.call \in {"undo", "undo(all=True)"}]_vars

\* C19 witness: a second recording method has returned and its task is the second of
\* two different tasks
C19_Witness ==
    /\ last.call \in actions
    /\ Len(LastTasks) = 2
    /\ LastTasks[2][1] = last.call
    /\ LastTasks[1][1] # LastTasks[2][1]
    /\ LastTasks[1][1] \in actions

\* C20: validate(), show() and freeze() only read the task list: returned or raised,
\* they leave every session's tasks as they were.
C20_ReplayReadsTasksOnly ==
    [][last'.call \in ReplayCalls => _tasks' = _tasks]_vars

\* C20 witness: a call has replayed two tasks and the session still has the two
C20_Witness ==
    /\ last.call \in ReplayCalls
    /\ Len(last.applied) = 2
    /\ last.applied = LastTasks

----------------------------------------------------------------------------
(* Properties of the session's lifecycle and of recording *)

\* C21: once a freeze() of a session has returned a node, no step changes the task list
\* of that session.
C21_NoMutationAfterFreeze ==
    [][\A s \in Sessions : frozen[s] # <<>> => _tasks'[s] = _tasks[s]]_vars

\* C22: the freeze() calls of one session return at most one document.
C22_AtMostOneFrozenResult ==
    \A s \in Sessions : Cardinality(Range(frozen[s])) <= 1

\* C23: a session is constructed on one FleurinpData node, with an empty task list;
\* construction on anything else raises and makes no session; a session keeps the
\* baseline it was constructed on.
C23_ConstructedEmptyOnOneBaseline ==
    /\ [](\A s \in Live : /\ Val(_original[s]) \in 1..Len(nodes)
                           /\ IsFleurinpData(Original(s)))
    /\ [](last.call = "__init__" =>
            IF IsNone(last.err)
            THEN last.session \in Live /\ LastTasks = <<>>
            ELSE /\ last.err = <<"AssertionError", "Wrong AiiDA data type">>
                 /\ last.session \notin Live)
    /\ [][\A s \in Sessions : ~IsNone(_original[s]) => _original'[s] = _original[s]]_vars

\* C23 witness: a second session has been constructed on the baseline of the first,
\* which holds a task, and its own list is empty
C23_Witness ==
    /\ last.call = "__init__"
    /\ last.session = "s2"
    /\ IsNone(last.err)
    /\ _original["s2"] = _original["s1"]
    /\ _tasks["s1"] # <<>>
    /\ _tasks["s2"] = <<>>

\* the 17 operation names of the external vocabulary
OperationNames ==
    {"xml_set_attribv_occ", "xml_set_first_attribv", "xml_set_all_attribv", "xml_set_text",
     "xml_set_text_occ", "xml_set_all_text", "create_tag", "replace_tag", "delete_tag",
     "delete_att", "set_species", "set_species_label", "set_atomgr_att",
     "set_atomgr_att_label", "set_inpchanges", "set_nkpts", "add_num_to_att"}

\* C24: the names offered for recording are the names the applier dispatches on, the
\* 17 names of the vocabulary, and a recording method stores its task under a name
\* the applier finds.
C24_OneVocabulary ==
    /\ get_avail_actions = actions
    /\ actions = OperationNames
    /\ Cardinality(actions) = 17
    /\ last.call \in get_avail_actions =>
          /\ LastTasks # <<>>
          /\ LastTasks[Len(LastTasks)][1] = last.call
          /\ LastTasks[Len(LastTasks)][1] \in actions

\* C24 witness: set_nkpts has recorded its task after another recording method
C24_Witness ==
    /\ last.call = "set_nkpts"
    /\ Len(LastTasks) = 2
    /\ LastTasks[2][1] = "set_nkpts"
    /\ LastTasks[1][1] \in get_avail_actions \ {"set_nkpts"}

\* the task a recording call has just stored
Stored == LastTasks[Len(LastTasks)]

\* what the recording call that stored task t asked for: the operation of its name on
\* the values the recording method was given, each under the parameter it was given as
Meant(tree, t) ==
    CASE t[1] = "xml_set_attribv_occ" ->
            xml_set_attribv_occ(tree, t[2], t[3], t[4], Val(t[5]), t[6])
      [] t[1] = "xml_set_first_attribv" -> xml_set_first_attribv(tree, t[2], t[3], t[4], t[5])
      [] t[1] = "xml_set_all_attribv" -> xml_set_all_attribv(tree, t[2], t[3], t[4], t[5])
      [] t[1] = "xml_set_text" -> xml_set_text(tree, t[2], t[3], t[4])
      [] t[1] = "xml_set_text_occ" -> xml_set_text_occ(tree, t[2], t[3], t[4], t[5])
      [] t[1] = "xml_set_all_text" -> xml_set_all_text(tree, t[2], t[3], t[4])
      [] t[1] = "create_tag" -> create_tag(tree, t[2], t[3], t[4])
      [] t[1] = "delete_att" -> delete_att(tree, t[2], t[3])
      [] t[1] = "delete_tag" -> delete_tag(tree, t[2])
      [] t[1] = "replace_tag" -> replace_tag(tree, t[2], t[3])
      [] t[1] = "set_species" -> set_species(tree, t[2], t[3], t[4])
      [] t[1] = "set_species_label" -> set_species_label(tree, t[2], t[3], t[4])
      [] t[1] = "set_atomgr_att" -> change_atomgr_att(tree, t[2], t[3], t[4], t[5])
      [] t[1] = "set_atomgr_att_label" -> change_atomgr_att_label(tree, t[2], t[3], t[4])
      [] t[1] = "set_inpchanges" -> write_new_fleur_xmlinp_file(tree, t[2], XmlInpStructure)
      [] t[1] = "set_nkpts" ->
            replace_tag(tree, KPointListPath,
                        Element("kPointCount", [count |-> Format(t[2]), gamma |-> t[3]], NoText))
      [] t[1] = "add_num_to_att" ->
            add_num_to_att(tree, t[2], t[3], t[4], t[5], Val(t[6]), t[7])

\* C25: the task a recording method stores, replayed as action(tree, *task[1:]), does
\* to the tree what the operation does on the recorded values, each bound to the
\* parameter of its meaning.
C25_RecorderAndApplierAgree ==
    last.call \in get_avail_actions =>
        action(Stored[1], Parse(LastOriginal.file, FALSE), Tail(Stored))
            = Meant(Parse(LastOriginal.file, FALSE), Stored)

\* C25 witness: set_atomgr_att has stored (attributedict, position, species, create)
\* and the replay of the task sets the attribute on the atom group of the species
C25_Witness ==
    /\ last.call = "set_atomgr_att"
    /\ Stored = <<"set_atomgr_att", [force |-> "1"], None, Some("Fe"), FALSE>>
    /\ LET r == action(Stored[1], Parse(LastOriginal.file, FALSE), Tail(Stored))
       IN  /\ ~Failed(r)
           /\ r.tree.el[AtomGroupPath][1].att.force = "1"

\* the place of the creation flag in the task of each operation that has one
CreateAt ==
    [xml_set_attribv_occ |-> 6, xml_set_first_attribv |-> 5, xml_set_all_attribv |-> 5,
     xml_set_text |-> 4, xml_set_text_occ |-> 4, xml_set_all_text |-> 4, create_tag |-> 4,
     set_species |-> 4, set_species_label |-> 4, set_atomgr_att |-> 5,
     set_atomgr_att_label |-> 4, add_num_to_att |-> 7]

\* C26: the defaults are applied when the task is stored: no stored task of a recording
\* method has an unset occurrence list, an omitted one is [0], an omitted mode is
\* 'abs' and the creation flag is a boolean, False when omitted.
C26_DefaultsStored ==
    last.call \in get_avail_actions =>
        /\ Stored[1] = "xml_set_attribv_occ" => Stored[5] = Some(<<0>>)
        /\ Stored[1] = "add_num_to_att" => (Stored[5] = "abs" /\ Stored[6] = Some(<<0>>))
        /\ Stored[1] = "xml_set_text_occ" => Stored[5] = 0
        /\ Stored[1] \in DOMAIN CreateAt =>
              /\ Stored[CreateAt[Stored[1]]] \in BOOLEAN
              \* xml_set_all_text is the one recording call here that passes the flag
              /\ Stored[1] # "xml_set_all_text" => Stored[CreateAt[Stored[1]]] = FALSE

\* C26 witness: add_num_to_att called with path, attribute and value only
C26_Witness ==
    /\ last.call = "add_num_to_att"
    /\ Stored = <<"add_num_to_att", ScfLoopPath, "itmax", 1, "abs", Some(<<0>>), FALSE>>

\* C27: a recording method stores no task that its applier rejects for its arguments
\* (a wrong number of them, a key it does not know).
C27_MalformedRejectedAtRecord ==
    last.call \in get_avail_actions =>
        LET r == action(Stored[1], Parse(LastOriginal.file, FALSE), Tail(Stored))
        IN  Failed(r) => r.err[1] \notin {"TypeError", "UnknownKey"}

\* C28: the list that changes() returns cannot be used to alter the session's tasks:
\* an append to it leaves the task lists as they were.
C28_ChangesIsReadOnly ==
    [][last'.call = "changes().append" => _tasks' = _tasks]_vars

\* C29: a change the caller makes to a dict it passed to a recording method leaves
\* the stored tasks as they were.
C29_StoredTaskImmutable ==
    [][last'.call = "attributedict['radius'] = '9'" => _tasks' = _tasks]_vars

\* C30: a recording call, an undo, a validate(), a show() or a freeze() of one session
\* leaves the task list and the baseline reference of every other session, and every
\* stored node, as they were.
C30_SessionsIsolated ==
    [][last'.call \in get_avail_actions \cup ReplayCalls \cup {"undo", "undo(all=True)"} =>
          /\ \A t \in Sessions \ {last'.session} :
                _tasks'[t] = _tasks[t] /\ _original'[t] = _original[t]
          /\ \A n \in 1..Len(nodes) : n <= Len(nodes') /\ nodes'[n] = nodes[n]]_vars

\* C30 witness: of two sessions on one baseline the second has recorded a task and the
\* list of the first is empty
C30_Witness ==
    /\ last.session = "s2"
    /\ last.call \in get_avail_actions
    /\ _original["s2"] = _original["s1"]
    /\ _tasks["s2"] # <<>>
    /\ _tasks["s1"] = <<>>

\* C31: when freeze() has stored a document, show(validate=False) on the same session
\* replays the same tasks in the same order and returns the same document as the one
\* stored.
C31_PreviewAndCommitAgree ==
    (last.call = "freeze" /\ ~IsNone(last.out)) =>
        LET got == show(LastOriginal, LastTasks, FALSE, FALSE)
        IN  /\ IsNone(got.err)
            /\ got.applied = last.applied
            /\ got.ret = Produced

\* the k-point sampling a set_nkpts task asks for
KPointCount(t) == Element("kPointCount", [count |-> Format(t[2]), gamma |-> t[3]], NoText)

\* C32: set_nkpts called without gamma stores 'F'; a replay that applied a set_nkpts task
\* and returned a document has put, for the kPointList, one kPointCount node whose
\* count and gamma are the recorded values as strings.
C32_SetNkptsReplacesKPointList ==
    /\ last.call = "set_nkpts" => Stored[3] = "F"
    /\ (last.call \in ReplayCalls /\ ~IsNone(Produced)) =>
          \A i \in 1..Len(last.applied) :
              last.applied[i][1] = "set_nkpts" =>
                  /\ Match(LastParsed, KPointListPath) # <<>>
                  /\ Match(Val(Produced), KPointListPath) = <<>>
                  /\ Match(Val(Produced), KPointCountPath) = <<KPointCount(last.applied[i])>>

\* C32 witness: show() has replayed set_nkpts(2) and the tree it returns has the node
\* kPointCount count="2" gamma="F" and no kPointList
C32_Witness ==
    /\ last.call = "show"
    /\ last.applied = <<<<"set_nkpts", 2, "F">>>>
    /\ ~IsNone(Produced)
    /\ Match(Val(Produced), KPointCountPath)
          = <<Element("kPointCount", [count |-> "2", gamma |-> "F"], NoText)>>
    /\ Match(Val(Produced), KPointListPath) = <<>>

----------------------------------------------------------------------------
(* Properties of the workchain fleur_mae_wc *)

\* the tasks the change list of a direction asks for
Asked(SQA_direction) ==
    [i \in 1..Len(FChanges(SQA_direction)) |->
        Val(CallMethod(FChanges(SQA_direction)[i][1], FChanges(SQA_direction)[i][2]).task)]

\* the direction the last turn of mae_force worked on
LastDirection ==
    IF ~IsNone(ctx.err) THEN Head(ctx.todo) ELSE ctx.force[Len(ctx.force)].SQA_direction

Angles(n) == [theta |-> nodes[n].file.el[SocPath][1].att.theta,
              phi |-> nodes[n].file.el[SocPath][1].att.phi]

\* C34: the calculations submitted by mae_force are those of the directions done, in
\* their order, each with the node that modify_fleurinpdata made from the reference
\* fleurinp and the change list of its own direction, whose inp.xml has the angles of
\* that direction.
C34_SubmittedWithOwnDocument ==
    \A i \in 1..Len(ctx.force) :
        LET f == ctx.force[i]
        IN  /\ f.SQA_direction = Directions[i]
            /\ f.SQA_direction \notin Range(ctx.todo)
            /\ \E l \in links :
                  /\ l.output = f.fleurin
                  /\ l.inputs.original = Val(ctx.xyz)
                  /\ l.inputs.modifications.tasks = Asked(f.SQA_direction)
            /\ Angles(f.fleurin) = [theta |-> IF f.SQA_direction = "z" THEN "0" ELSE "1",
                                     phi |-> IF f.SQA_direction = "y" THEN "1" ELSE "0"]

\* C34 witness: the three calculations are submitted, with three different nodes
C34_Witness ==
    /\ Len(ctx.force) = 3
    /\ Cardinality({ctx.force[i].fleurin : i \in 1..3}) = 3
    /\ Angles(ctx.force[2].fleurin) = [theta |-> "1", phi |-> "1"]

\* C35: the output of get_res_force and of get_results_converge has no negative MAE
\* and its smallest MAE is 0.
C35_MinimalEnergyIsZero ==
    (ctx.step = "done" /\ ~IsNone(ctx.out)) =>
        LET out == Val(ctx.out)
        IN  /\ out.MAE_x >= 0 /\ out.MAE_y >= 0 /\ out.MAE_z >= 0
            /\ 0 \in {out.MAE_x, out.MAE_y, out.MAE_z}

----------------------------------------------------------------------------
(* Properties of the workchain fleur_corehole_wc *)

\* C36: when run_ref_scf has warned of an entry it does not recognize, the step has
\* completed, calcs_ref_torun is empty, and labels and calculations are those of the
\* other entries only: none here, where the entry of create_supercell is the only one.
C36_UnrecognizedEntrySkipped ==
    ctx.report # <<>> =>
        /\ IsNone(ctx.err)
        /\ ctx.step = "check_scf"
        /\ ctx.calcs_ref_torun = <<>>
        /\ ctx.labels = <<>>
        /\ ctx.calcs = <<>>

\* create_coreholes has run
Created == ctx.step = "run_ref_scf" \/ (ctx.step = "excepted" /\ ctx.labels = <<>>)

\* C37: with a method that is neither 'valence' nor 'charge', create_coreholes ends
\* without error and leaves the calculations it leaves for 'valence'.
C37_OtherMethodIsValence ==
    (Created /\ ctx.method \notin {"valence", "charge"}) =>
        /\ IsNone(ctx.err)
        /\ ctx.calcs_torun
              = create_coreholes([ctx EXCEPT !.method = "valence", !.calcs_torun = <<>>,
                                             !.err = None]).calcs_torun

\* C38: every change list that create_coreholes puts on calcs_torun is the set_species
\* change, then the add_num_to_att change of valenceElectrons exactly when the method
\* is 'charge', then the set_inpchanges change of jspins to 2 exactly when the
\* calculation is magnetic; every entry names a recording method and gives exactly
\* the parameters of that method as keywords.
C38_ChangeListOrder ==
    \A i \in 1..Len(ctx.calcs_torun) :
        LET changes == ctx.calcs_torun[i]
        IN  /\ [k \in 1..Len(changes) |-> changes[k][1]]
                  = <<"set_species">>
                    \o (IF ctx.method = "charge" THEN <<"add_num_to_att">> ELSE <<>>)
                    \o (IF ctx.magnetic THEN <<"set_inpchanges">> ELSE <<>>)
            /\ \A k \in 1..Len(changes) :
                  /\ changes[k][1] \in get_avail_actions
                  /\ DOMAIN changes[k][2] = Range(Signature[changes[k][1]])
                  /\ IsNone(CallMethod(changes[k][1], changes[k][2]).err)
                  /\ Val(CallMethod(changes[k][1], changes[k][2]).task)[1] = changes[k][1]
                  /\ changes[k][1] = "add_num_to_att" =>
                        changes[k][2].attributename = "valenceElectrons"
                  /\ changes[k][1] = "set_inpchanges" =>
                        changes[k][2].change_dict = [jspins |-> 2]

\* C38 witness: a magnetic calculation with the method 'charge' has a change list of
\* the three changes
C38_Witness ==
    /\ ctx.method = "charge"
    /\ ctx.magnetic
    /\ ctx.calcs_torun # <<>>
    /\ Len(ctx.calcs_torun[1]) = 3
    /\ ctx.calcs_torun[1][3][1] = "set_inpchanges"

====
